---- MODULE Spec2Model ----
(***************************************************************************)
(* casper-inotify: the dispatch engine of src/src/api.cc as a state        *)
(* machine.  Strings the code searches, splits or concatenates are         *)
(* sequences of one-character strings; strings the code only stores and    *)
(* tests for emptiness (error_, warning_, user names) are atomic.  Event    *)
(* masks are sets of flag names: mask & FLAG is a non-empty intersection.   *)
(* Pointers to entries are indexes into entries_.all_.                      *)
(***************************************************************************)
EXTENDS Integers, Sequences, FiniteSets, TLC

VARIABLES
    pc,         \* position of the daemon in main / Watch ("child": the process is a child)
    log_fp,     \* log_.fp_ : "null" or "open"
    inotify_fd, \* inotify_.fd_ : -1 or the descriptor
    hostname_,  \* hostname_
    all_,       \* entries_.all_  : sequence of entries
    good_,      \* entries_.good_ : map wd -> index into all_
    bad_,       \* entries_.bad_  : sequence of indexes into all_
    uris_,      \* entries_.uris_ : [directories_, files_]
    buffer_,    \* inotify_.buffer_ : the records returned by the last read
    idx,        \* Wait: position in buffer_ (counted in records)
    actions,    \* Wait: the local vector `actions`
    kernel,     \* the inotify instance: [watches : uri -> wd (0 = none), masks, next, queue, made]
    spawns,     \* Spawn calls issued since the last read, in order
    child,      \* the last call of Spawn: its variables and strings; in SpecChild, its child
    last        \* what the last step of the dispatch pipeline did

vars == <<pc, log_fp, inotify_fd, hostname_, all_, good_, bad_, uris_, buffer_,
          idx, actions, kernel, spawns, child, last>>

-----------------------------------------------------------------------------
(* Bounds of the model *)

MaxQueue == 2
\* records the kernel may hold unread, and so the longest buffer of one read

MaxRecords == 2
\* records the kernel generates in one run

MaxWd == 3
\* watch descriptors the kernel hands out in one run

MaxEvents == 2
\* longest events array handed to events2mask

MaxPieces == 3
\* most pieces a string handed to Replace is put together from

MaxParsed == 2
\* most records in a buffer handed to the record parser on its own

-----------------------------------------------------------------------------
(* Strings *)

RECURSIVE Concat(_)
Concat(ss) ==
    IF ss = <<>> THEN <<>> ELSE Head(ss) \o Concat(Tail(ss))

S_slash == <<"/">>
S_d     == <<"/", "d">>
S_d_a   == <<"/", "d", "/", "a">>
S_d_b   == <<"/", "d", "/", "b">>
S_a     == <<"a">>
S_b     == <<"b">>
S_c     == <<"c">>
S_sep   == <<",", " ">>
S_qqq   == <<"?", "?", "?">>

S_open     == <<"o", "p", "e", "n">>
S_closed   == <<"c", "l", "o", "s", "e", "d">>
S_accessed == <<"a", "c", "c", "e", "s", "s", "e", "d">>
S_created  == <<"c", "r", "e", "a", "t", "e", "d">>
S_modified == <<"m", "o", "d", "i", "f", "i", "e", "d">>
S_deleted  == <<"d", "e", "l", "e", "t", "e", "d">>
S_ignored  == <<"i", "g", "n", "o", "r", "e", "d">>
S_file      == <<"f", "i", "l", "e">>
S_directory == <<"d", "i", "r", "e", "c", "t", "o", "r", "y">>

\* a find that compares the first character only
FindFirstChar(a_value, a_from, a_pos) ==
    LET at == { p \in a_pos .. Len(a_value) : Len(a_from) > 0 /\ a_value[p] = a_from[1] }
    IN IF at = {} THEN 0 ELSE CHOOSE p \in at : \A q \in at : p <= q

\* std::string::find(a_from, a_pos): the first position >= a_pos (1-based) at
\* which a_from occurs in a_value, 0 (npos) when there is none.
Find(a_value, a_from, a_pos) ==
    LET at == { p \in a_pos .. (Len(a_value) - Len(a_from) + 1) :
                  \/ Len(a_from) = 0
                  \/ /\ a_value[p] = a_from[1]
                     /\ SubSeq(a_value, p, p + Len(a_from) - 1) = a_from }
    IN IF at = {} THEN 0 ELSE CHOOSE p \in at : \A q \in at : p <= q

\* std::string::rfind(c): the last position of the character, 0 (npos) when none.
RFind(a_value, c) ==
    LET at == { p \in 1 .. Len(a_value) : a_value[p] = c }
    IN IF at = {} THEN 0 ELSE CHOOSE p \in at : \A q \in at : q <= p

-----------------------------------------------------------------------------
(* Event taxonomy: <sys/inotify.h> flags and the keyword map *)

IN_ACCESS        == {"IN_ACCESS"}
IN_MODIFY        == {"IN_MODIFY"}
IN_ATTRIB        == {"IN_ATTRIB"}
IN_CLOSE_WRITE   == {"IN_CLOSE_WRITE"}
IN_CLOSE_NOWRITE == {"IN_CLOSE_NOWRITE"}
IN_OPEN          == {"IN_OPEN"}
IN_MOVED_FROM    == {"IN_MOVED_FROM"}
IN_MOVED_TO      == {"IN_MOVED_TO"}
IN_CREATE        == {"IN_CREATE"}
IN_DELETE        == {"IN_DELETE"}
IN_DELETE_SELF   == {"IN_DELETE_SELF"}
IN_MOVE_SELF     == {"IN_MOVE_SELF"}
IN_IGNORED       == {"IN_IGNORED"}
IN_ISDIR         == {"IN_ISDIR"}
IN_ONLYDIR       == {"IN_ONLYDIR"}
IN_Q_OVERFLOW    == {"IN_Q_OVERFLOW"}
IN_CLOSE         == IN_CLOSE_WRITE \cup IN_CLOSE_NOWRITE
IN_MOVE          == IN_MOVED_FROM \cup IN_MOVED_TO

\* mask & flag
Has(mask, flag) == mask \cap flag # {}

sk_field_key_to_id_map_ ==
    [ k \in { "open", "create", "access", "modify", "attrib", "close_write",
              "close_nowrite", "close", "delete", "delete_sef", "move",
              "move_self", "move_from", "move_to" } |->
        CASE k = "open"          -> IN_OPEN
          [] k = "create"        -> IN_CREATE
          [] k = "access"        -> IN_ACCESS
          [] k = "modify"        -> IN_MODIFY
          [] k = "attrib"        -> IN_ATTRIB
          [] k = "close_write"   -> IN_CLOSE_WRITE
          [] k = "close_nowrite" -> IN_CLOSE_NOWRITE
          [] k = "close"         -> IN_CLOSE
          [] k = "delete"        -> IN_DELETE
          [] k = "delete_sef"    -> IN_DELETE_SELF
          [] k = "move"          -> IN_MOVE
          [] k = "move_self"     -> IN_MOVE_SELF
          [] k = "move_from"     -> IN_MOVED_FROM
          [] k = "move_to"       -> IN_MOVED_TO ]

\* the lambda events2mask of Load
events2mask(a_array) ==
    UNION { IF a_array[i] \in DOMAIN sk_field_key_to_id_map_
              THEN sk_field_key_to_id_map_[a_array[i]]
              ELSE {} : i \in DOMAIN a_array }

-----------------------------------------------------------------------------
(* Placeholders and templates *)

K_PREFIX   == <<"C", "A", "S", "P", "E", "R", "_", "I", "N", "O", "T", "I", "F", "Y", "_">>
K_EVENT    == K_PREFIX \o <<"E", "V", "E", "N", "T">>
K_OBJECT   == K_PREFIX \o <<"O", "B", "J", "E", "C", "T">>
K_NAME     == K_PREFIX \o <<"N", "A", "M", "E">>
K_DATETIME == K_PREFIX \o <<"D", "A", "T", "E", "T", "I", "M", "E">>
K_HOSTNAME == K_PREFIX \o <<"H", "O", "S", "T", "N", "A", "M", "E">>
K_MSG      == K_PREFIX \o <<"M", "S", "G">>
K_CMD      == K_PREFIX \o <<"C", "M", "D">>

\* the keys of the map `vars` of Spawn, in the order of its initialiser list
VarKeys == <<K_EVENT, K_OBJECT, K_NAME, K_DATETIME, K_HOSTNAME, K_MSG, K_CMD>>

\* "${" + key + "}"
Placeholder(key) == <<"$", "{">> \o key \o <<"}">>

S_was == <<" ", "w", "a", "s", " ">>

\* the default of obj.get("message", ...) in Load
DefaultMessage ==
    Concat(<< <<"C", "A", "S", "P", "E", "R", "-", "I", "N", "O", "T", "I", "F", "Y">>,
              <<" ", ":", ":", " ", "W", "A", "R", "N", "I", "N", "G", " ", ":", ":", " ">>,
              Placeholder(K_NAME), <<" ">>, Placeholder(K_OBJECT), S_was,
              Placeholder(K_EVENT), <<" ", "@", " ">>, Placeholder(K_HOSTNAME),
              <<" ", "[", " ">>, Placeholder(K_DATETIME), <<" ", "]">> >>)

\* API_DEFAULT_PATH
API_DEFAULT_PATH ==
    <<"/", "u", "s", "r", "/", "b", "i", "n", ":",
      "/", "u", "s", "r", "/", "l", "o", "c", "a", "l", "/", "b", "i", "n">>

\* a loop that replaces nothing
ReplaceLoopKeeps(a_value, a_from, a_to, start_pos) == a_value

\* API::Replace: left to right, the scan resumes behind the inserted text.
RECURSIVE ReplaceLoop(_, _, _, _)
ReplaceLoop(a_value, a_from, a_to, start_pos) ==
    LET p == Find(a_value, a_from, start_pos) IN
    IF p = 0 THEN a_value
    ELSE ReplaceLoop(SubSeq(a_value, 1, p - 1) \o a_to
                       \o SubSeq(a_value, p + Len(a_from), Len(a_value)),
                     a_from, a_to, p + Len(a_to))

Replace(a_value, a_from, a_to) == ReplaceLoop(a_value, a_from, a_to, 1)

-----------------------------------------------------------------------------
(* Configuration documents: the Json::Value handed to Load.  An object is a  *)
(* record; a member the document does not have is a field the record does    *)
(* not have.                                                                 *)

\* Json::Value::get(key, default)
Get(a_object, key, default) ==
    IF key \in DOMAIN a_object THEN a_object[key] ELSE default

T_cmd_msg == <<"l", " ">> \o Placeholder(K_MSG)
T_cmd_evt == <<"t", " ">> \o Placeholder(K_EVENT) \o <<" ">> \o Placeholder(K_NAME)
T_msg_evt == <<"m", " ">> \o Placeholder(K_EVENT)
T_msg_cmd == <<"h", " ">> \o Placeholder(K_CMD)
P_d_star  == <<"/", "d", "/", "*">>
P_a_star  == <<"a", "*">>

\* two files of one directory, both asking for modify
DocTwoFiles ==
    [ user    |-> "root",
      command |-> T_cmd_msg,
      message |-> T_msg_evt,
      files   |-> << [ uri |-> S_d_a, events |-> <<"modify">> ],
                     [ uri |-> S_d_b, events |-> <<"modify", "delete">>,
                       user |-> "nobody", message |-> T_msg_cmd ] >> ]

\* a directory rule and a file rule that both carry a pattern
DocPatterns ==
    [ user        |-> "nobody",
      command     |-> T_cmd_evt,
      message     |-> T_msg_evt,
      directories |-> << [ uri |-> S_d, events |-> <<"create", "open">>,
                           pattern |-> P_a_star ] >>,
      files       |-> << [ uri |-> S_d_a, events |-> <<"modify">>,
                           pattern |-> P_d_star ] >> ]

\* an unknown keyword, an element without events, a file without a parent
\* component, a user the host does not know
DocOdd ==
    [ user        |-> "ghost",
      command     |-> T_cmd_evt,
      directories |-> << [ uri |-> S_d, events |-> <<>> ] >>,
      files       |-> << [ uri |-> S_d_a, events |-> <<"open", "bogus", "delete", "attrib">> ],
                         [ uri |-> S_a, events |-> <<"modify">> ],
                         [ uri |-> S_d_b, events |-> <<"delete_self">>, user |-> "root" ] >> ]

Documents == { DocTwoFiles, DocPatterns, DocOdd }

-----------------------------------------------------------------------------
(* Loader *)

\* an Add that stores no handler
AddWithoutHandler(st, defaults_, a_type, a_object, a_uri, a_mask, a_handler) ==
    [ uris_ |->
        IF a_handler THEN st.uris_
        ELSE IF a_type = "_Directory"
          THEN [st.uris_ EXCEPT !.directories_ = @ \cup {a_uri}]
          ELSE [st.uris_ EXCEPT !.files_ = @ \cup {a_uri}],
      all_ |-> Append(st.all_,
        [ type_    |-> a_type,
          uri_     |-> a_uri,
          mask_    |-> a_mask,
          wd_      |-> -1,
          user_    |-> Get(a_object, "user", defaults_.user_),
          cmd_     |-> Get(a_object, "command", defaults_.command_),
          msg_     |-> Get(a_object, "message", defaults_.message_),
          pattern_ |-> Get(a_object, "pattern", <<>>),
          error_   |-> "",
          warning_ |-> "",
          handler_ |-> FALSE ]) ]

\* an Add that inserts the uri of every rule into the uri sets
AddListsAll(st, defaults_, a_type, a_object, a_uri, a_mask, a_handler) ==
    [ uris_ |->
        IF a_type = "_Directory"
          THEN [st.uris_ EXCEPT !.directories_ = @ \cup {a_uri}]
          ELSE [st.uris_ EXCEPT !.files_ = @ \cup {a_uri}],
      all_ |-> Append(st.all_,
        [ type_    |-> a_type,
          uri_     |-> a_uri,
          mask_    |-> a_mask,
          wd_      |-> -1,
          user_    |-> Get(a_object, "user", defaults_.user_),
          cmd_     |-> Get(a_object, "command", defaults_.command_),
          msg_     |-> Get(a_object, "message", defaults_.message_),
          pattern_ |-> Get(a_object, "pattern", <<>>),
          error_   |-> "",
          warning_ |-> "",
          handler_ |-> a_handler ]) ]

\* Add with the new entry put in front of all_
AddInFront(st, defaults_, a_type, a_object, a_uri, a_mask, a_handler) ==
    [ uris_ |->
        IF a_handler THEN st.uris_
        ELSE IF a_type = "_Directory"
          THEN [st.uris_ EXCEPT !.directories_ = @ \cup {a_uri}]
          ELSE [st.uris_ EXCEPT !.files_ = @ \cup {a_uri}],
      all_ |-> <<
        [ type_    |-> a_type,
          uri_     |-> a_uri,
          mask_    |-> a_mask,
          wd_      |-> -1,
          user_    |-> Get(a_object, "user", defaults_.user_),
          cmd_     |-> Get(a_object, "command", defaults_.command_),
          msg_     |-> Get(a_object, "message", defaults_.message_),
          pattern_ |-> Get(a_object, "pattern", <<>>),
          error_   |-> "",
          warning_ |-> "",
          handler_ |-> a_handler ] >> \o st.all_ ]

\* API::Add, on the pair [all_, uris_]
Add(st, defaults_, a_type, a_object, a_uri, a_mask, a_handler) ==
    [ uris_ |->
        IF a_handler THEN st.uris_
        ELSE IF a_type = "_Directory"
          THEN [st.uris_ EXCEPT !.directories_ = @ \cup {a_uri}]
          ELSE [st.uris_ EXCEPT !.files_ = @ \cup {a_uri}],
      all_ |-> Append(st.all_,
        [ type_    |-> a_type,
          uri_     |-> a_uri,
          mask_    |-> a_mask,
          wd_      |-> -1,
          user_    |-> Get(a_object, "user", defaults_.user_),
          cmd_     |-> Get(a_object, "command", defaults_.command_),
          msg_     |-> Get(a_object, "message", defaults_.message_),
          pattern_ |-> Get(a_object, "pattern", <<>>),
          error_   |-> "",
          warning_ |-> "",
          handler_ |-> a_handler ]) ]

\* Load: the loop over obj["directories"]
RECURSIVE LoadDirectories(_, _, _, _)
LoadDirectories(st, defaults_, dirs, i) ==
    IF i > Len(dirs) THEN st
    ELSE
      LET mask == events2mask(Get(dirs[i], "events", <<>>)) \cup IN_ONLYDIR IN
      IF "uri" \notin DOMAIN dirs[i] \/ mask = {}
        THEN LoadDirectories(st, defaults_, dirs, i + 1)
        ELSE LoadDirectories(
               Add(st, defaults_, "_Directory", dirs[i], dirs[i].uri, mask, FALSE),
               defaults_, dirs, i + 1)

\* Load: the loop over obj["files"]
RECURSIVE LoadFiles(_, _, _, _)
LoadFiles(st, defaults_, files, i) ==
    IF i > Len(files) THEN st
    ELSE
      LET mask0 == events2mask(Get(files[i], "events", <<>>)) IN
      IF "uri" \notin DOMAIN files[i] \/ mask0 = {}
        THEN LoadFiles(st, defaults_, files, i + 1)
        ELSE
          LET tmp  == files[i].uri
              mask == IF Has(mask0, IN_DELETE) THEN mask0 \cup IN_DELETE_SELF ELSE mask0
              last_slash_idx == RFind(tmp, "/")
          IN
          IF Has(mask, IN_MODIFY)
            THEN
              IF last_slash_idx = 0
                THEN LoadFiles(st, defaults_, files, i + 1)
                ELSE LoadFiles(
                       Add(Add(st, defaults_, "_Directory", files[i],
                               SubSeq(tmp, 1, last_slash_idx - 1), IN_CREATE, TRUE),
                           defaults_, "_File", files[i], tmp, mask, FALSE),
                       defaults_, files, i + 1)
            ELSE LoadFiles(Add(st, defaults_, "_File", files[i], tmp, mask, FALSE),
                           defaults_, files, i + 1)

\* Load, up to the hostname lookup: defaults_, then directories, then files
LoadEntries(obj) ==
    LET defaults_ == [ user_    |-> Get(obj, "user", ""),
                       command_ |-> Get(obj, "command", <<>>),
                       message_ |-> Get(obj, "message", DefaultMessage) ]
        empty == [ all_ |-> <<>>, uris_ |-> [directories_ |-> {}, files_ |-> {}] ]
    IN LoadFiles(LoadDirectories(empty, defaults_, Get(obj, "directories", <<>>), 1),
                 defaults_, Get(obj, "files", <<>>), 1)

-----------------------------------------------------------------------------
(* The inotify instance, as the daemon sees it through its system calls.     *)
(* watches maps a path to its live watch descriptor (0: not watched); two    *)
(* inotify_add_watch calls on one path return one descriptor.  Descriptors    *)
(* are handed out in increasing order and not reused.                         *)

Paths == { S_d, S_d_a, S_d_b }

KernelInit ==
    [ watches |-> [u \in Paths |-> 0], masks |-> [u \in Paths |-> {}],
      next |-> 1, queue |-> <<>>, made |-> 0 ]

LiveWds(k) == { k.watches[u] : u \in Paths } \ {0}

\* can inotify_add_watch(uri) succeed now?  (ENOENT, ENOSPC, EACCES otherwise)
CanAddWatch(k, uri) == uri \in Paths /\ (k.watches[uri] # 0 \/ k.next <= MaxWd)

\* inotify_add_watch(fd, uri, mask): [kernel, wd].  On a path that is watched
\* already the mask of the watch is replaced (the call is made without IN_MASK_ADD).
inotify_add_watch(k, uri, mask, ok) ==
    IF ~ok THEN [kernel |-> k, wd |-> -1]
    ELSE IF k.watches[uri] # 0
      THEN [kernel |-> [k EXCEPT !.masks[uri] = mask], wd |-> k.watches[uri]]
    ELSE [ kernel |-> [k EXCEPT !.watches[uri] = k.next, !.masks[uri] = mask,
                                !.next = k.next + 1],
           wd     |-> k.next ]

\* inotify_rm_watch(fd, wd): the watch goes away and IN_IGNORED is queued
inotify_rm_watch(k, wd) ==
    [ k EXCEPT !.watches = [u \in Paths |-> IF k.watches[u] = wd THEN 0 ELSE k.watches[u]],
               !.masks   = [u \in Paths |-> IF k.watches[u] = wd THEN {} ELSE k.masks[u]],
               !.queue   = IF wd \in LiveWds(k)
                             THEN Append(k.queue, [wd |-> wd, mask |-> IN_IGNORED, name |-> <<>>])
                             ELSE k.queue ]

-----------------------------------------------------------------------------
(* Rule table.  A table state is [all_, good_, bad_, kernel].                *)

E_register == "An error occurred while registering an event"
W_removed  == "event was removed explicitly or automatically!"

MapPut(m, k, v) == [x \in DOMAIN m \cup {k} |-> IF x = k THEN v ELSE m[x]]
MapErase(m, k)  == [x \in DOMAIN m \ {k} |-> m[x]]
EmptyMap        == [x \in {} |-> 0]

\* erase(begin() + i) on a vector
SeqErase(q, i) == SubSeq(q, 1, i - 1) \o SubSeq(q, i + 1, Len(q))

\* a Register that leaves the warning of the entry as it is
RegisterKeepsWarning(t, e, ok) ==
    LET r == inotify_add_watch(t.kernel, t.all_[e].uri_, t.all_[e].mask_, ok) IN
    IF r.wd = -1
      THEN [t EXCEPT !.kernel = r.kernel,
                     !.all_[e].wd_ = -1,
                     !.all_[e].error_ = E_register]
      ELSE [t EXCEPT !.kernel = r.kernel,
                     !.all_[e].wd_ = r.wd,
                     !.all_[e].error_ = ""]

\* API::Register: the table state after the call; it returns ok
Register(t, e, ok) ==
    LET r == inotify_add_watch(t.kernel, t.all_[e].uri_, t.all_[e].mask_, ok) IN
    IF r.wd = -1
      THEN [t EXCEPT !.kernel = r.kernel,
                     !.all_[e].wd_ = -1,
                     !.all_[e].error_ = E_register]
      ELSE [t EXCEPT !.kernel = r.kernel,
                     !.all_[e].wd_ = r.wd,
                     !.all_[e].error_ = "",
                     !.all_[e].warning_ = ""]

\* API::Track
Track(t, e, a_good) ==
    IF a_good
      THEN [t EXCEPT !.good_ = MapPut(t.good_, t.all_[e].wd_, e)]
      ELSE [t EXCEPT !.bad_ = Append(t.bad_, e)]

\* an Untrack that also empties the pattern of the entry
UntrackClearsPattern(t, e, a_reason) ==
    [t EXCEPT !.good_ = MapErase(t.good_, t.all_[e].wd_),
              !.bad_  = Append(t.bad_, e),
              !.all_[e].wd_ = -1,
              !.all_[e].warning_ = a_reason,
              !.all_[e].pattern_ = <<>>]

\* Untrack that leaves the entry in good_ under its old descriptor
UntrackKeepsGood(t, e, a_reason) ==
    [t EXCEPT !.bad_  = Append(t.bad_, e),
              !.all_[e].wd_ = -1,
              !.all_[e].warning_ = a_reason]

\* API::Untrack (the entry's wd_ is a key of good_ at every call the model makes)
Untrack(t, e, a_reason) ==
    [t EXCEPT !.good_ = MapErase(t.good_, t.all_[e].wd_),
              !.bad_  = Append(t.bad_, e),
              !.all_[e].wd_ = -1,
              !.all_[e].warning_ = a_reason]

\* fnmatch(pattern, string, 0) = 0, for patterns of literals, '?' and '*'
RECURSIVE FnMatch(_, _)
FnMatch(p, s) ==
    IF p = <<>> THEN s = <<>>
    ELSE IF Head(p) = "*"
      THEN FnMatch(Tail(p), s) \/ (s # <<>> /\ FnMatch(p, Tail(s)))
    ELSE IF s = <<>> THEN FALSE
    ELSE (Head(p) = "?" \/ Head(p) = Head(s)) /\ FnMatch(Tail(p), Tail(s))

-----------------------------------------------------------------------------
(* Wait: one kernel record *)

S_now == <<"2", "0", "2", "3", "-", "0", "1", "-", "0", "1", "T",
           "0", "0", ":", "0", "0", ":", "0", "0", "+", "0", "0", ":", "0", "0">>

\* a const char* is the empty set (nullptr) or the set of the string it points to
NullPtr     == {}
PtrTo(str)  == {str}
Deref(ptr)  == CHOOSE str \in ptr : TRUE

\* an Event whose object name is the uri of the entry, whatever the record
BuildEventUriOnly(rec, ent) ==
    LET inside == Len(rec.name) > 0 IN
    [ mask_                       |-> rec.mask,
      iso_8601_with_tz_           |-> S_now,
      inside_a_watched_directory_ |-> inside,
      object_name_c_str_          |-> ent.uri_,
      parent_object_type_c_       |-> IF inside THEN "d" ELSE "-",
      parent_object_name_         |-> IF inside THEN PtrTo(ent.uri_) ELSE NullPtr,
      object_type_c_              |-> IF Has(rec.mask, IN_ISDIR) THEN "d" ELSE "f",
      object_type_c_str_          |-> IF Has(rec.mask, IN_ISDIR) THEN S_directory ELSE S_file,
      name_                       |-> <<>> ]

\* the Event with the rule's URI as parent name whatever the record
BuildEventAlwaysParent(rec, ent) ==
    LET inside == Len(rec.name) > 0 IN
    [ mask_                       |-> rec.mask,
      iso_8601_with_tz_           |-> S_now,
      inside_a_watched_directory_ |-> inside,
      object_name_c_str_          |-> IF inside THEN rec.name ELSE ent.uri_,
      parent_object_type_c_       |-> IF inside THEN "d" ELSE "-",
      parent_object_name_         |-> PtrTo(ent.uri_),
      object_type_c_              |-> IF Has(rec.mask, IN_ISDIR) THEN "d" ELSE "f",
      object_type_c_str_          |-> IF Has(rec.mask, IN_ISDIR) THEN S_directory ELSE S_file,
      name_                       |-> <<>> ]

\* the Event without a parent name whatever the record
BuildEventNoParent(rec, ent) ==
    LET inside == Len(rec.name) > 0 IN
    [ mask_                       |-> rec.mask,
      iso_8601_with_tz_           |-> S_now,
      inside_a_watched_directory_ |-> inside,
      object_name_c_str_          |-> IF inside THEN rec.name ELSE ent.uri_,
      parent_object_type_c_       |-> IF inside THEN "d" ELSE "-",
      parent_object_name_         |-> NullPtr,
      object_type_c_              |-> IF Has(rec.mask, IN_ISDIR) THEN "d" ELSE "f",
      object_type_c_str_          |-> IF Has(rec.mask, IN_ISDIR) THEN S_directory ELSE S_file,
      name_                       |-> <<>> ]

\* the Event built by Wait for record rec on entry ent, name_ still empty
BuildEvent(rec, ent) ==
    LET inside == Len(rec.name) > 0 IN
    [ mask_                       |-> rec.mask,
      iso_8601_with_tz_           |-> S_now,
      inside_a_watched_directory_ |-> inside,
      object_name_c_str_          |-> IF inside THEN rec.name ELSE ent.uri_,
      parent_object_type_c_       |-> IF inside THEN "d" ELSE "-",
      parent_object_name_         |-> IF inside THEN PtrTo(ent.uri_) ELSE NullPtr,
      object_type_c_              |-> IF Has(rec.mask, IN_ISDIR) THEN "d" ELSE "f",
      object_type_c_str_          |-> IF Has(rec.mask, IN_ISDIR) THEN S_directory ELSE S_file,
      name_                       |-> <<>> ]

\* the push_back sequence of Wait, appended to what `actions` already holds
PushActions(acts, mask) ==
    acts
      \o (IF Has(mask, IN_OPEN)   THEN <<S_open>>     ELSE <<>>)
      \o (IF Has(mask, IN_CLOSE)  THEN <<S_closed>>   ELSE <<>>)
      \o (IF Has(mask, IN_ACCESS) THEN <<S_accessed>> ELSE <<>>)
      \o (IF Has(mask, IN_CREATE) THEN <<S_created>>  ELSE <<>>)
      \o (IF Has(mask, IN_MODIFY) THEN <<S_modified>> ELSE <<>>)
      \o (IF Has(mask, IN_DELETE) \/ Has(mask, IN_DELETE_SELF) THEN <<S_deleted>> ELSE <<>>)
      \o (IF Has(mask, IN_IGNORED) THEN <<S_ignored>> ELSE <<>>)

\* e.name_ += ", " + action for every action; then drop the first two characters
RECURSIVE JoinActions(_)
JoinActions(acts) ==
    IF acts = <<>> THEN <<>> ELSE S_sep \o Head(acts) \o JoinActions(Tail(acts))

\* a name made of the first action alone
EventNameFirstOnly(acts) ==
    IF Len(acts) # 0 THEN Head(acts) ELSE S_qqq

EventName(acts) ==
    IF Len(acts) # 0
      THEN LET joined == JoinActions(acts) IN SubSeq(joined, 3, Len(joined))
      ELSE S_qqq

\* a search that stops at the first entry of bad_, whatever its uri
SearchBadAny(t, uri, i) ==
    IF i > Len(t.bad_) THEN 0 ELSE i

\* the loop of Handler over bad_: the position of the first entry with that uri, 0 if none
RECURSIVE SearchBad(_, _, _)
SearchBad(t, uri, i) ==
    IF i > Len(t.bad_) THEN 0
    ELSE IF t.all_[t.bad_[i]].uri_ = uri THEN i
    ELSE SearchBad(t, uri, i + 1)

\* Handler without the test of the mask
HandlerAcceptsAny(t, files_, a_event, ok) ==
    IF a_event.parent_object_name_ = NullPtr
      THEN [t |-> t, ret |-> FALSE, path |-> "rejected", entry |-> 0]
    ELSE
      LET uri == Deref(a_event.parent_object_name_) \o S_slash \o a_event.object_name_c_str_ IN
      IF uri \notin files_
        THEN [t |-> t, ret |-> FALSE, path |-> "not applicable", entry |-> 0]
      ELSE
        LET i == SearchBad(t, uri, 1) IN
        IF i = 0
          THEN [t |-> t, ret |-> FALSE, path |-> "not found", entry |-> 0]
          ELSE
            LET entry == t.bad_[i]
                t1 == Register([t EXCEPT !.bad_ = SeqErase(t.bad_, i)], entry, ok)
            IN IF t1.all_[entry].wd_ # -1
                 THEN [t |-> Track(t1, entry, TRUE), ret |-> TRUE,
                       path |-> "registered", entry |-> entry]
                 ELSE [t |-> Track(t1, entry, FALSE), ret |-> FALSE,
                       path |-> "register failed", entry |-> entry]

\* API::Handler, for a non-null parent name:
\* [t, ret, path, entry] with path the branch taken and entry the rule handed to Register
Handler(t, files_, a_event, ok) ==
    IF ~(~Has(a_event.mask_, IN_ISDIR) /\ Has(a_event.mask_, IN_CREATE))
      THEN [t |-> t, ret |-> FALSE, path |-> "rejected", entry |-> 0]
    ELSE
      LET uri == Deref(a_event.parent_object_name_) \o S_slash \o a_event.object_name_c_str_ IN
      IF uri \notin files_
        THEN [t |-> t, ret |-> FALSE, path |-> "not applicable", entry |-> 0]
      ELSE
        LET i == SearchBad(t, uri, 1) IN
        IF i = 0
          THEN [t |-> t, ret |-> FALSE, path |-> "not found", entry |-> 0]
          ELSE
            LET entry == t.bad_[i]
                t1 == Register([t EXCEPT !.bad_ = SeqErase(t.bad_, i)], entry, ok)
            IN IF t1.all_[entry].wd_ # -1
                 THEN [t |-> Track(t1, entry, TRUE), ret |-> TRUE,
                       path |-> "registered", entry |-> entry]
                 ELSE [t |-> Track(t1, entry, FALSE), ret |-> FALSE,
                       path |-> "register failed", entry |-> entry]

-----------------------------------------------------------------------------
(* Spawn: template expansion in the parent, then the child up to execlp *)

N_PATH     == <<"P", "A", "T", "H">>
N_LOGNAME  == <<"L", "O", "G", "N", "A", "M", "E">>
N_USER     == <<"U", "S", "E", "R">>
N_USERNAME == <<"U", "S", "E", "R", "N", "A", "M", "E">>
N_HOME     == <<"H", "O", "M", "E">>
N_SHELL    == <<"S", "H", "E", "L", "L">>
N_PRELOAD  == <<"L", "D", "_", "P", "R", "E", "L", "O", "A", "D">>

S_host == <<"h", "1">>

\* the password database of the host; "ghost" has no entry
Passwd ==
    [ u \in {"root", "nobody"} |->
        IF u = "root"
          THEN [ pw_name |-> <<"r", "o", "o", "t">>, pw_uid |-> 0, pw_gid |-> 0,
                 pw_dir |-> <<"/", "r">>, pw_shell |-> <<"/", "s", "h">> ]
          ELSE [ pw_name |-> <<"n", "o", "b", "o", "d", "y">>, pw_uid |-> 65534,
                 pw_gid |-> 65534, pw_dir |-> <<"/">>, pw_shell |-> <<"/", "n", "o">> ] ]

\* what a read through a null struct passwd* yields when it does not trap
GarbagePw ==
    [ pw_name |-> <<"?">>, pw_uid |-> 1, pw_gid |-> 1, pw_dir |-> <<"?">>, pw_shell |-> <<"?">> ]

\* environments the daemon may be started with
Environs ==
    { [n \in {N_PRELOAD} |-> <<"x">>],
      [n \in {N_PATH, N_HOME} |-> IF n = N_PATH THEN <<"/", "e">> ELSE <<"/", "h">>] }

\* iteration orders of std::map<const char* const, std::string>: the keys are
\* compared as pointers, so the order is that of the literals in memory
VarOrders ==
    { VarKeys,
      <<K_CMD, K_MSG, K_HOSTNAME, K_DATETIME, K_NAME, K_OBJECT, K_EVENT>>,
      <<K_MSG, K_EVENT, K_OBJECT, K_NAME, K_DATETIME, K_HOSTNAME, K_CMD>> }

\* the initialiser of `vars` in Spawn
SpawnVars(a_entry, a_event, host) ==
    [ k \in { VarKeys[i] : i \in DOMAIN VarKeys } |->
        CASE k = K_EVENT    -> a_event.name_
          [] k = K_OBJECT   -> a_event.object_type_c_str_
          [] k = K_NAME     -> a_event.object_name_c_str_
          [] k = K_DATETIME -> a_event.iso_8601_with_tz_
          [] k = K_HOSTNAME -> host
          [] k = K_MSG      -> a_entry.msg_
          [] k = K_CMD      -> a_entry.cmd_ ]

\* for ( auto it2 : vars ) value = Replace(value, "${" + it2.first + "}", it2.second)
RECURSIVE Expand(_, _, _, _)
Expand(value, vars_, order, i) ==
    IF i > Len(order) THEN value
    ELSE Expand(Replace(value, Placeholder(order[i]), vars_[order[i]]), vars_, order, i + 1)

\* what getpwnam may return: the entry, or null with errno set, or null with
\* errno left at 0 (no such user)
PwOutcomes(user) ==
    IF user \in DOMAIN Passwd THEN {"entry", "null errno"} ELSE {"null", "null errno"}

\* setenv(name, value, 1) for every name of a sequence
RECURSIVE SetEnvAll(_, _, _)
SetEnvAll(env, names, values) ==
    IF names = <<>> THEN env
    ELSE SetEnvAll(MapPut(env, Head(names), values[Head(names)]), Tail(names), values)

Repeat(x, n) == [i \in 1..n |-> x]

NoRun == [ pc |-> "none" ]

NoSpawn == [ entry |-> 0 ]

\* a Spawn that leaves a child behind whatever fork returns
SpawnLeavesChild(e, a_entry, a_event, host, order) ==
    LET vars_ == SpawnVars(a_entry, a_event, host) IN
    [ entry  |-> e,
      user   |-> a_entry.user_,
      order  |-> order,
      vars   |-> vars_,
      cmd    |-> Expand(a_entry.cmd_, vars_, order, 1),
      msg    |-> Expand(a_entry.msg_, vars_, order, 1),
      forked |-> FALSE,
      run    |-> [ pc |-> "getpwnam" ] ]

\* API::Spawn on entry e, up to fork: the variables and the expanded strings;
\* order is the iteration order of vars
Spawn(e, a_entry, a_event, host, order) ==
    LET vars_ == SpawnVars(a_entry, a_event, host) IN
    [ entry  |-> e,
      user   |-> a_entry.user_,
      order  |-> order,
      vars   |-> vars_,
      cmd    |-> Expand(a_entry.cmd_, vars_, order, 1),
      msg    |-> Expand(a_entry.msg_, vars_, order, 1),
      forked |-> FALSE,
      run    |-> NoRun ]

\* the child when fork returns 0: it has the daemon's environment
ChildStart(inherited) ==
    [ pc |-> "getpwnam", no |-> 0, what |-> "", trace |-> <<>>, env |-> inherited,
      pwd |-> NullPtr, syslog |-> "", inherited |-> inherited ]

\* a child that goes from the passwd lookup straight to initgroups
GetpwnamNoSetgid(c, user, pw) ==
    [c EXCEPT !.trace = Append(@, "getpwnam"),
              !.pwd   = IF pw = "entry" THEN PtrTo(Passwd[user]) ELSE NullPtr,
              !.no    = IF pw = "entry" THEN 0 ELSE 2,
              !.what  = IF pw = "entry" THEN "" ELSE "get user info",
              !.pc    = "initgroups"]

\* errno = 0; pwd = getpwnam(user); if ( nullptr == pwd ) { error = { errno, "get user info" } }
Getpwnam(c, user, pw) ==
    [c EXCEPT !.trace = Append(@, "getpwnam"),
              !.pwd   = IF pw = "entry" THEN PtrTo(Passwd[user]) ELSE NullPtr,
              !.no    = IF pw = "null errno" THEN 2 ELSE 0,
              !.what  = IF pw = "entry" THEN "" ELSE "get user info",
              !.pc    = "setgid"]

\* one guarded call of the child: if ( 0 == error.no_ && 0 != call(...) ) { error = ... }
Stage(c, call, failed, no, what, next) ==
    IF c.no # 0 THEN [c EXCEPT !.pc = next]
    ELSE [c EXCEPT !.trace = Append(@, call),
                   !.no    = IF failed THEN no ELSE 0,
                   !.what  = IF failed THEN what ELSE @,
                   !.pc    = next]

\* a clearenv that returns 0 and leaves the environment as it is
ClearenvKeepsAll(c, failed) ==
    Stage(c, "clearenv", failed, -1, "clear environment", "setenv")

\* clearenv empties the environment when it is called and succeeds
Clearenv(c, failed) ==
    LET c1 == Stage(c, "clearenv", failed, -1, "clear environment", "setenv") IN
    IF c.no = 0 /\ ~failed THEN [c1 EXCEPT !.env = EmptyMap] ELSE c1

\* the six setenv calls of the non-root branch, joined by ||
UserEnv(c, failed) ==
    LET pwd == Deref(c.pwd) IN
    IF c.no # 0 \/ pwd.pw_uid = 0 THEN [c EXCEPT !.pc = "setenv vars"]
    ELSE IF failed
      THEN [c EXCEPT !.trace = Append(@, "setenv"), !.no = -1, !.what = "set environment",
                     !.pc = "setenv vars"]
      ELSE [c EXCEPT
              !.pc    = "setenv vars",
              !.trace = @ \o Repeat("setenv", 6),
              !.env   = SetEnvAll(@, <<N_PATH, N_LOGNAME, N_USER, N_USERNAME, N_HOME, N_SHELL>>,
                          [n \in {N_PATH, N_LOGNAME, N_USER, N_USERNAME, N_HOME, N_SHELL} |->
                             CASE n = N_PATH  -> API_DEFAULT_PATH
                               [] n = N_HOME  -> pwd.pw_dir
                               [] n = N_SHELL -> pwd.pw_shell
                               [] OTHER       -> pwd.pw_name])]

\* the loop over vars, inside the non-root branch
VarsEnv(c, vars_, order, failed) ==
    LET pwd == Deref(c.pwd) IN
    IF c.no # 0 \/ pwd.pw_uid = 0 THEN [c EXCEPT !.pc = "launch"]
    ELSE IF failed
      THEN [c EXCEPT !.trace = Append(@, "setenv"), !.no = -1, !.what = "set environment var",
                     !.pc = "launch"]
      ELSE [c EXCEPT !.pc    = "launch",
                     !.trace = @ \o Repeat("setenv", Len(order)),
                     !.env   = SetEnvAll(@, order, vars_)]

\* if ( 0 != error.no_ ) { syslog; exit(-1) } execlp(...); syslog; exit(-1)
Launch(c, failed) ==
    IF c.no # 0
      THEN [c EXCEPT !.trace = @ \o <<"syslog", "exit">>, !.pc = "exit -1", !.syslog = c.what]
    ELSE IF failed
      THEN [c EXCEPT !.trace = @ \o <<"execlp", "syslog", "exit">>,
                     !.pc = "exit -1", !.syslog = "execlp failed"]
      ELSE [c EXCEPT !.trace = Append(@, "execlp"), !.pc = "exec"]

-----------------------------------------------------------------------------
(* The daemon: main, Init, Load, Watch *)

\* what one call of Unload does to the outside: descriptors given to
\* inotify_rm_watch, entries deleted, descriptors closed, log file closed
NoUnload == [ rm_watch |-> {}, deleted |-> 0, close |-> {}, fclose |-> FALSE ]

NoStep ==
    [ outcome |-> "none", rec |-> <<>>, entry |-> 0, name |-> <<>>, handler |-> "",
      hentry |-> 0, ignored |-> FALSE, untracked |-> FALSE, exc |-> "none",
      event |-> <<>>, unload |-> NoUnload ]

Table == [ all_ |-> all_, good_ |-> good_, bad_ |-> bad_, kernel |-> kernel ]

Commit(t) ==
    /\ all_'   = t.all_
    /\ good_'  = t.good_
    /\ bad_'   = t.bad_
    /\ kernel' = t.kernel

\* API::Unload: the table state and descriptors after it
RECURSIVE RemoveWatches(_, _, _)
RemoveWatches(k, entries, i) ==
    IF i > Len(entries) THEN k
    ELSE RemoveWatches(IF entries[i].wd_ # -1 THEN inotify_rm_watch(k, entries[i].wd_) ELSE k,
                       entries, i + 1)

\* an Unload that removes no watch
\* Unload that closes the descriptor and keeps its number
UnloadKeepsDescriptor ==
    /\ kernel'     = RemoveWatches(kernel, all_, 1)
    /\ all_'       = <<>>
    /\ good_'      = EmptyMap
    /\ bad_'       = <<>>
    /\ uris_'      = [directories_ |-> {}, files_ |-> {}]
    /\ inotify_fd' = inotify_fd
    /\ log_fp'     = "null"

UnloadKeepsWatches ==
    /\ kernel'     = kernel
    /\ all_'       = <<>>
    /\ good_'      = EmptyMap
    /\ bad_'       = <<>>
    /\ uris_'      = [directories_ |-> {}, files_ |-> {}]
    /\ inotify_fd' = -1
    /\ log_fp'     = "null"

Unload ==
    /\ kernel'     = RemoveWatches(kernel, all_, 1)
    /\ all_'       = <<>>
    /\ good_'      = EmptyMap
    /\ bad_'       = <<>>
    /\ uris_'      = [directories_ |-> {}, files_ |-> {}]
    /\ inotify_fd' = -1
    /\ log_fp'     = "null"

Init ==
    /\ pc = "constructed"
    /\ log_fp = "null"
    /\ inotify_fd = -1
    /\ hostname_ = <<>>
    /\ all_ = <<>>
    /\ good_ = EmptyMap
    /\ bad_ = <<>>
    /\ uris_ = [directories_ |-> {}, files_ |-> {}]
    /\ buffer_ = <<>>
    /\ idx = 0
    /\ actions = <<>>
    /\ kernel = KernelInit
    /\ spawns = <<>>
    /\ child = NoSpawn
    /\ last = NoStep

\* API::Init: Unload, then fopen of the log file; a failed fopen throws to main
ApiInit ==
    /\ pc = "constructed"
    /\ \E opened \in BOOLEAN :
         /\ log_fp' = IF opened THEN "open" ELSE "null"
         /\ pc' = IF opened THEN "initialized" ELSE "escaped"
    /\ UNCHANGED <<inotify_fd, hostname_, all_, good_, bad_, uris_, buffer_, idx,
                   actions, kernel, spawns, child, last>>

\* API::Load of one document; a failed gethostname throws to main
Load ==
    /\ pc = "initialized"
    /\ \E obj \in Documents, named \in BOOLEAN :
         LET st == LoadEntries(obj) IN
         /\ all_' = st.all_
         /\ uris_' = st.uris_
         /\ hostname_' = IF named THEN S_host ELSE <<>>
         /\ pc' = IF named THEN "loaded" ELSE "escaped"
    /\ UNCHANGED <<log_fp, inotify_fd, good_, bad_, buffer_, idx, actions, kernel, spawns, child, last>>

\* Watch: inotify_init; a failure throws to main
WatchInit ==
    /\ pc = "loaded"
    /\ \E fd \in {-1, 3} :
         /\ inotify_fd' = fd
         /\ pc' = IF fd < 0 THEN "escaped"
                  ELSE IF Len(all_) = 0 THEN "waiting" ELSE "registering"
    /\ idx' = 1
    /\ UNCHANGED <<log_fp, hostname_, all_, good_, bad_, uris_, buffer_, actions,
                   kernel, spawns, child, last>>

\* a registration loop that is left at the first Register that fails
RegisterEntryStopsAtFailure ==
    /\ pc = "registering"
    /\ \E ok \in BOOLEAN :
         /\ ok => CanAddWatch(kernel, all_[idx].uri_)
         /\ LET t == Register(Table, idx, ok) IN Commit(Track(t, idx, ok))
         /\ pc' = IF idx + 1 > Len(all_) \/ ~ok THEN "waiting" ELSE "registering"
    /\ idx' = idx + 1
    /\ UNCHANGED <<log_fp, inotify_fd, hostname_, uris_, buffer_, actions,
                   spawns, child, last>>

\* Watch: one iteration of the registration loop over all_
RegisterEntry ==
    /\ pc = "registering"
    /\ \E ok \in BOOLEAN :
         /\ ok => CanAddWatch(kernel, all_[idx].uri_)
         /\ LET t == Register(Table, idx, ok) IN Commit(Track(t, idx, ok))
    /\ idx' = idx + 1
    /\ pc' = IF idx + 1 > Len(all_) THEN "waiting" ELSE "registering"
    /\ UNCHANGED <<log_fp, inotify_fd, hostname_, uris_, buffer_, actions,
                   spawns, child, last>>

-----------------------------------------------------------------------------
(* The kernel side of the inotify instance *)

\* shapes of the records the kernel writes.  A record carries a name when
\* the event is on an object inside a watched directory, and only then; it
\* carries event bits of the mask of its watch only.
RecordShapes ==
    { [mask |-> IN_CREATE, name |-> S_a],
      [mask |-> IN_CREATE, name |-> S_b],
      [mask |-> IN_CREATE, name |-> S_c],
      [mask |-> IN_CREATE \cup IN_ISDIR, name |-> S_a],
      [mask |-> IN_OPEN \cup IN_CREATE, name |-> S_a],
      [mask |-> IN_MODIFY, name |-> <<>>],
      [mask |-> IN_ATTRIB, name |-> <<>>],
      [mask |-> IN_DELETE_SELF, name |-> <<>>] }

Directories == { S_d }

WatchedPath(k, wd) == CHOOSE u \in Paths : k.watches[u] = wd

\* an event on a watched object: a record is queued
KernelEvent ==
    /\ inotify_fd # -1
    /\ pc \in {"registering", "waiting", "dispatching"}
    /\ Len(kernel.queue) < MaxQueue
    /\ kernel.made < MaxRecords
    /\ \E wd \in LiveWds(kernel), shape \in RecordShapes :
         /\ Len(shape.name) > 0 => WatchedPath(kernel, wd) \in Directories
         /\ (shape.mask \ IN_ISDIR) \subseteq kernel.masks[WatchedPath(kernel, wd)]
         /\ kernel' = [kernel EXCEPT
                         !.queue = Append(@, [wd |-> wd, mask |-> shape.mask, name |-> shape.name]),
                         !.made  = @ + 1]
    /\ child' = NoSpawn
    /\ last' = NoStep
    /\ UNCHANGED <<pc, log_fp, inotify_fd, hostname_, all_, good_, bad_, uris_, buffer_,
                   idx, actions, spawns>>

\* the watched object is deleted or unmounted: the watch goes away, IN_IGNORED is queued
KernelRemove ==
    /\ inotify_fd # -1
    /\ pc \in {"registering", "waiting", "dispatching"}
    /\ Len(kernel.queue) < MaxQueue
    /\ kernel.made < MaxRecords
    /\ \E wd \in LiveWds(kernel) :
         kernel' = [inotify_rm_watch(kernel, wd) EXCEPT !.made = @ + 1]
    /\ child' = NoSpawn
    /\ last' = NoStep
    /\ UNCHANGED <<pc, log_fp, inotify_fd, hostname_, all_, good_, bad_, uris_, buffer_,
                   idx, actions, spawns>>

\* the kernel drops an event for lack of room in its queue and queues one
\* IN_Q_OVERFLOW record, whose wd is -1.  The room is a setting of the host;
\* a read returns IN_MAX_EVENTS_PER_LOOP records at most, so records queued
\* later can follow the overflow record in the queue and in a buffer.
KernelOverflow ==
    /\ inotify_fd # -1
    /\ pc \in {"registering", "waiting", "dispatching"}
    /\ Len(kernel.queue) < MaxQueue
    /\ kernel.made < MaxRecords
    /\ LiveWds(kernel) # {}
    /\ \A i \in DOMAIN kernel.queue : kernel.queue[i].wd # -1
    /\ kernel' = [kernel EXCEPT
                    !.queue = Append(@, [wd |-> -1, mask |-> IN_Q_OVERFLOW, name |-> <<>>]),
                    !.made  = @ + 1]
    /\ child' = NoSpawn
    /\ last' = NoStep
    /\ UNCHANGED <<pc, log_fp, inotify_fd, hostname_, all_, good_, bad_, uris_, buffer_,
                   idx, actions, spawns>>

-----------------------------------------------------------------------------
(* Wait and the dispatch loop of Watch.  The model is of a build without     *)
(* DEBUG: DEBUG_LOG and IF_DEBUG expand to nothing.  log_.level_ is _Event,   *)
(* so Log writes the Info, Warning, Error and Event records.                  *)

\* Wait: the blocking read; the whole queue fits the buffer
WaitRead ==
    /\ pc = "waiting"
    /\ kernel.queue # <<>>
    /\ buffer_' = kernel.queue
    /\ kernel' = [kernel EXCEPT !.queue = <<>>]
    /\ idx' = 1
    /\ actions' = <<>>
    /\ spawns' = <<>>
    /\ child' = NoSpawn
    /\ last' = NoStep
    /\ pc' = "dispatching"
    /\ UNCHANGED <<log_fp, inotify_fd, hostname_, all_, good_, bad_, uris_>>

\* Wait: read returns -1 and Wait throws inotify::Exception, which is not a
\* std::exception: the handler of Watch does not catch it and it reaches main
WaitReadFails ==
    /\ pc = "waiting"
    /\ pc' = "escaped"
    /\ last' = [NoStep EXCEPT !.outcome = "threw", !.exc = "inotify"]
    /\ child' = NoSpawn
    /\ UNCHANGED <<log_fp, inotify_fd, hostname_, all_, good_, bad_, uris_, buffer_, idx,
                   actions, kernel, spawns>>

\* a step to the next record that leaves the loop whatever the buffer holds
AdvanceLeavesLoop ==
    /\ idx' = idx + 1
    /\ pc' = "waiting"
    /\ buffer_' = <<>>

\* idx += IN_STRUCT_EVENT_SIZE + event->len, and the loop test
Advance ==
    /\ idx' = idx + 1
    /\ pc' = IF idx + 1 > Len(buffer_) THEN "waiting" ELSE "dispatching"
    /\ buffer_' = IF idx + 1 > Len(buffer_) THEN <<>> ELSE buffer_

\* an exception leaves Wait.  kind "std": a std::exception (Log rethrows a
\* formatting failure as one), caught by Watch, which logs it and goes on, or
\* breaks when that Log throws too.  kind "inotify": an inotify::Exception
\* (Now, inside Wait or inside Log), which Watch does not catch.
Throw(kind) ==
    /\ idx' = 0
    /\ buffer_' = <<>>
    /\ actions' = <<>>
    /\ IF kind = "inotify"
         THEN pc' = "escaped"
         ELSE \E logged \in BOOLEAN : pc' = IF logged THEN "waiting" ELSE "unregistering"

ExcKinds == {"inotify", "std"}

\* a loop body that calls Spawn whatever the name and the mask of the record
DispatchSpawnsAlways(t, e, a_event, step) ==
    /\ \E order \in VarOrders, forked \in BOOLEAN :
         /\ child' = [Spawn(e, t.all_[e], a_event, hostname_, order) EXCEPT !.forked = forked]
         /\ spawns' = Append(spawns, [entry |-> e, rec |-> idx, name |-> a_event.name_])
    /\ Commit(t)
    /\ Advance
    /\ actions' = <<>>
    /\ last' = [step EXCEPT !.outcome = "completed",
                            !.ignored = a_event.name_ = S_qqq \/ Len(a_event.name_) = 0]

\* Dispatch with a parent that waits for the child it has forked
DispatchWaitsForChild(t, e, a_event, step) ==
    LET ignore  == a_event.name_ = S_qqq \/ Len(a_event.name_) = 0
        gone    == Has(a_event.mask_, IN_IGNORED)
        t1      == IF gone THEN Untrack(t, e, W_removed) ELSE t
        step1   == [step EXCEPT !.ignored = ignore, !.untracked = gone]
    IN
    \/ \* Ignore, or neither; then Untrack if the record carries IN_IGNORED
       /\ ignore \/ gone
       /\ Commit(t1)
       /\ Advance
       /\ actions' = <<>>
       /\ last' = [step1 EXCEPT !.outcome = "completed"]
       /\ child' = NoSpawn /\ UNCHANGED spawns
    \/ \* Log throws inside Ignore
       /\ ignore
       /\ \E kind \in ExcKinds :
            /\ Throw(kind)
            /\ last' = [step1 EXCEPT !.outcome = "threw", !.exc = kind, !.untracked = FALSE]
       /\ Commit(t)
       /\ child' = NoSpawn /\ UNCHANGED spawns
    \/ \* Log throws inside Untrack, after it has changed the table
       /\ gone
       /\ \E kind \in ExcKinds :
            /\ Throw(kind)
            /\ last' = [step1 EXCEPT !.outcome = "threw", !.exc = kind]
       /\ Commit(t1)
       /\ child' = NoSpawn /\ UNCHANGED spawns
    \/ \* Spawn
       /\ ~ignore /\ ~gone
       /\ \E order \in VarOrders, forked \in BOOLEAN :
            /\ child' = [Spawn(e, t.all_[e], a_event, hostname_, order) EXCEPT !.forked = forked]
            /\ spawns' = Append(spawns, [entry |-> e, rec |-> idx, name |-> a_event.name_])
            /\ IF forked
                 THEN pc' = "waitpid" /\ UNCHANGED <<idx, buffer_>>
                 ELSE Advance
       /\ Commit(t)
       /\ actions' = <<>>
       /\ last' = [step1 EXCEPT !.outcome = "completed"]

\* the end of the loop body, from the test of e.name_ on, for entry e in table state t
Dispatch(t, e, a_event, step) ==
    LET ignore  == a_event.name_ = S_qqq \/ Len(a_event.name_) = 0
        gone    == Has(a_event.mask_, IN_IGNORED)
        t1      == IF gone THEN Untrack(t, e, W_removed) ELSE t
        step1   == [step EXCEPT !.ignored = ignore, !.untracked = gone]
    IN
    \/ \* Ignore, or neither; then Untrack if the record carries IN_IGNORED
       /\ ignore \/ gone
       /\ Commit(t1)
       /\ Advance
       /\ actions' = <<>>
       /\ last' = [step1 EXCEPT !.outcome = "completed"]
       /\ child' = NoSpawn /\ UNCHANGED spawns
    \/ \* Log throws inside Ignore
       /\ ignore
       /\ \E kind \in ExcKinds :
            /\ Throw(kind)
            /\ last' = [step1 EXCEPT !.outcome = "threw", !.exc = kind, !.untracked = FALSE]
       /\ Commit(t)
       /\ child' = NoSpawn /\ UNCHANGED spawns
    \/ \* Log throws inside Untrack, after it has changed the table
       /\ gone
       /\ \E kind \in ExcKinds :
            /\ Throw(kind)
            /\ last' = [step1 EXCEPT !.outcome = "threw", !.exc = kind]
       /\ Commit(t1)
       /\ child' = NoSpawn /\ UNCHANGED spawns
    \/ \* Spawn
       /\ ~ignore /\ ~gone
       /\ \E order \in VarOrders, forked \in BOOLEAN :
            /\ child' = [Spawn(e, t.all_[e], a_event, hostname_, order) EXCEPT !.forked = forked]
            /\ spawns' = Append(spawns, [entry |-> e, rec |-> idx, name |-> a_event.name_])
       /\ Commit(t)
       /\ Advance
       /\ actions' = <<>>
       /\ last' = [step1 EXCEPT !.outcome = "completed"]

\* Wait: one iteration of the loop over the records of the buffer
WaitRecord ==
    /\ pc = "dispatching"
    /\ LET event == buffer_[idx]
           step  == [NoStep EXCEPT !.rec = event] 
       IN
       IF event.wd \notin DOMAIN good_
         THEN \* event NOT in watch list
              /\ Advance
              /\ last' = [step EXCEPT !.outcome = "unknown wd"]
              /\ child' = NoSpawn
              /\ UNCHANGED <<all_, good_, bad_, kernel, actions, spawns>>
         ELSE
           LET e      == good_[event.wd]
               entry  == all_[e]
               acts   == PushActions(actions, event.mask)
               ev     == [BuildEvent(event, entry) EXCEPT !.name_ = EventName(acts)]
               stepe  == [step EXCEPT !.entry = e]
               stepn  == [stepe EXCEPT !.name = ev.name_, !.event = ev]
           IN
           \/ \* Now throws while the Event is built
              /\ Throw("inotify")
              /\ last' = [stepe EXCEPT !.outcome = "threw", !.exc = "inotify"]
              /\ child' = NoSpawn /\ UNCHANGED <<all_, good_, bad_, kernel, spawns>>
           \/ \* no match for the pattern
              /\ Len(entry.pattern_) # 0
              /\ ~FnMatch(entry.pattern_, ev.object_name_c_str_)
              /\ Advance
              /\ last' = [stepe EXCEPT !.outcome = "pattern skip",
                                       !.event = BuildEvent(event, entry)]
              /\ child' = NoSpawn
              /\ UNCHANGED <<all_, good_, bad_, kernel, actions, spawns>>
           \/ \* the entry has a handler
              /\ Len(entry.pattern_) = 0 \/ FnMatch(entry.pattern_, ev.object_name_c_str_)
              /\ entry.handler_
              /\ IF ~Has(ev.mask_, IN_ISDIR) /\ Has(ev.mask_, IN_CREATE)
                      /\ ev.parent_object_name_ = NullPtr
                   THEN \* std::string(nullptr) is undefined: the daemon is killed,
                        \* or the library throws std::logic_error
                        \/ /\ pc' = "killed"
                           /\ last' = [stepn EXCEPT !.outcome = "killed"]
                           /\ UNCHANGED <<all_, good_, bad_, kernel, buffer_, idx, actions,
                                          spawns, child>>
                        \/ /\ Throw("std")
                           /\ last' = [stepn EXCEPT !.outcome = "threw", !.exc = "std"]
                           /\ child' = NoSpawn /\ UNCHANGED <<all_, good_, bad_, kernel, spawns>>
                   ELSE
                     \E ok \in BOOLEAN :
                       LET h == Handler(Table, uris_.files_, ev, ok)
                           steph == [stepn EXCEPT !.handler = h.path, !.hentry = h.entry]
                       IN
                       /\ ok => (h.entry # 0 /\ CanAddWatch(kernel, all_[h.entry].uri_))
                       /\ (~ok /\ h.entry = 0) \/ h.entry # 0
                       /\ \/ \* Log of "Case #1" throws, before bad_ is searched
                             /\ h.path \notin {"rejected", "not applicable"}
                             /\ ~ok
                             /\ \E kind \in ExcKinds :
                                  /\ Throw(kind)
                                  /\ last' = [stepn EXCEPT !.outcome = "threw", !.exc = kind,
                                                           !.handler = "log threw"]
                             /\ child' = NoSpawn /\ UNCHANGED <<all_, good_, bad_, kernel, spawns>>
                          \/ \* the handler returned false: event skipped
                             /\ ~h.ret
                             /\ Commit(h.t)
                             /\ Advance
                             /\ actions' = acts
                             /\ last' = [steph EXCEPT !.outcome = "handler skip"]
                             /\ child' = NoSpawn /\ UNCHANGED spawns
                          \/ \* the handler returned true
                             /\ h.ret
                             /\ Dispatch(h.t, e, ev, steph)
           \/ \* the entry has no handler
              /\ Len(entry.pattern_) = 0 \/ FnMatch(entry.pattern_, ev.object_name_c_str_)
              /\ ~entry.handler_
              /\ Dispatch(Table, e, ev, stepn)
    /\ UNCHANGED <<log_fp, inotify_fd, hostname_, uris_>>

-----------------------------------------------------------------------------
(* Leaving Watch *)

\* an Unregister that forgets the descriptor whatever inotify_rm_watch returns
UnregisterForgets(t, e, removed) ==
    IF t.all_[e].wd_ = -1 THEN t
    ELSE [t EXCEPT !.kernel = IF removed THEN inotify_rm_watch(t.kernel, t.all_[e].wd_)
                                         ELSE t.kernel,
                   !.all_[e].wd_ = -1,
                   !.all_[e].error_ = "",
                   !.all_[e].warning_ = ""]

\* API::Unregister with a watch to remove: the table state after it; it returns removed
Unregister(t, e, removed) ==
    IF t.all_[e].wd_ = -1 \/ ~removed THEN t
    ELSE [t EXCEPT !.kernel = inotify_rm_watch(t.kernel, t.all_[e].wd_),
                   !.all_[e].wd_ = -1,
                   !.all_[e].error_ = "",
                   !.all_[e].warning_ = ""]

\* Watch, after the break: one iteration of the loop over good_, at the first
\* key above idx.  After a successful Unregister the entry's wd_ is -1, and
\* Untrack erases good_.find(-1), the end iterator: undefined.  Either the
\* daemon is killed there, or nothing is erased and the loop goes on.
UnregisterEntry ==
    /\ pc = "unregistering"
    /\ \E wd \in DOMAIN good_ :
         /\ wd > idx
         /\ \A w \in DOMAIN good_ : w > idx => wd <= w
         /\ idx' = wd
         /\ \E removed \in BOOLEAN :
              LET e == good_[wd]
                  t == Unregister(Table, e, removed)
              IN
              IF ~removed
                THEN Commit(t) /\ pc' = pc
                ELSE \/ Commit(t) /\ pc' = "killed"
                     \/ /\ Commit([t EXCEPT !.bad_ = Append(@, e), !.all_[e].warning_ = ""])
                        /\ pc' = pc
    /\ child' = NoSpawn
    /\ last' = NoStep
    /\ UNCHANGED <<log_fp, inotify_fd, hostname_, uris_, buffer_, actions, spawns>>

\* Watch: Unload and return 0, once the loop over good_ is over
\* the calls a call of Unload makes in the current state
UnloadCalls ==
    [ rm_watch |-> { all_[e].wd_ : e \in { x \in DOMAIN all_ : all_[x].wd_ # -1 } },
      deleted  |-> Len(all_),
      close    |-> IF inotify_fd # -1 THEN {inotify_fd} ELSE {},
      fclose   |-> log_fp # "null" ]

WatchReturn ==
    /\ pc = "unregistering"
    /\ \A w \in DOMAIN good_ : w <= idx
    /\ Unload
    /\ pc' = "returned"
    /\ child' = NoSpawn
    /\ last' = [NoStep EXCEPT !.unload = UnloadCalls]
    /\ UNCHANGED <<hostname_, buffer_, idx, actions, spawns>>

\* main: Unload, after Watch returned or in a catch handler, then delete g_api_
MainUnload ==
    /\ pc \in {"returned", "escaped"}
    /\ Unload
    /\ pc' = "exited"
    /\ child' = NoSpawn
    /\ last' = [last EXCEPT !.unload = UnloadCalls]
    /\ UNCHANGED <<hostname_, buffer_, idx, actions, spawns>>

\* main: delete g_api_, whose destructor calls Unload
ApiDestructor ==
    /\ pc = "exited"
    /\ Unload
    /\ pc' = "deleted"
    /\ child' = NoSpawn
    /\ last' = [last EXCEPT !.unload = UnloadCalls]
    /\ UNCHANGED <<hostname_, buffer_, idx, actions, spawns>>

Next ==
    \/ ApiInit
    \/ Load
    \/ WatchInit
    \/ RegisterEntry
    \/ KernelEvent
    \/ KernelRemove
    \/ KernelOverflow
    \/ WaitRead
    \/ WaitReadFails
    \/ WaitRecord
    \/ UnregisterEntry
    \/ WatchReturn
    \/ MainUnload
    \/ ApiDestructor

Spec == Init /\ [][Next]_vars

\* the daemon is one thread that runs whenever it can: a record of the buffer
\* is taken up, and a read that has records to return returns
SpecFair == Spec /\ WF_vars(WaitRecord) /\ WF_vars(WaitRead \/ WaitReadFails)

-----------------------------------------------------------------------------
(* The child of Spawn, from the return of fork to execlp or exit.  The child *)
(* shares nothing with the daemon after fork: it is followed on its own,     *)
(* from every call of Spawn the dispatch loop can make on a loaded document. *)

daemon_vars == <<pc, log_fp, inotify_fd, hostname_, all_, good_, bad_, uris_, buffer_,
                 idx, actions, kernel, spawns, last>>

\* can Wait call Spawn on this entry for a record of this shape?
Spawns(st, entry, shape) ==
    LET rec == [wd |-> 1, mask |-> shape.mask, name |-> shape.name]
        ev  == [BuildEvent(rec, entry) EXCEPT !.name_ = EventName(PushActions(<<>>, shape.mask))]
    IN
    /\ (Len(shape.name) > 0) <=> (entry.uri_ \in Directories)
    /\ (shape.mask \ IN_ISDIR) \subseteq entry.mask_
    /\ Len(entry.pattern_) = 0 \/ FnMatch(entry.pattern_, ev.object_name_c_str_)
    /\ entry.handler_ =>
         /\ ~Has(shape.mask, IN_ISDIR) /\ Has(shape.mask, IN_CREATE)
         /\ (entry.uri_ \o S_slash \o shape.name) \in st.uris_.files_
    /\ ev.name_ # S_qqq

InitChild ==
    /\ pc = "child"
    /\ log_fp = "open"
    /\ inotify_fd = 3
    /\ hostname_ = S_host
    /\ good_ = EmptyMap
    /\ bad_ = <<>>
    /\ buffer_ = <<>>
    /\ idx = 0
    /\ actions = <<>>
    /\ kernel = KernelInit
    /\ spawns = <<>>
    /\ last = NoStep
    /\ \E obj \in Documents :
         LET st == LoadEntries(obj) IN
         /\ all_ = st.all_
         /\ uris_ = st.uris_
         /\ \E e \in DOMAIN st.all_, shape \in RecordShapes, order \in VarOrders,
               inherited \in Environs :
              /\ Spawns(st, st.all_[e], shape)
              /\ LET rec == [wd |-> 1, mask |-> shape.mask, name |-> shape.name]
                     ev  == [BuildEvent(rec, st.all_[e]) EXCEPT
                               !.name_ = EventName(PushActions(<<>>, shape.mask))]
                 IN child = [Spawn(e, st.all_[e], ev, S_host, order) EXCEPT
                               !.forked = TRUE, !.run = ChildStart(inherited)]

\* a read through pwd: of a null pointer it is undefined, and either traps
\* (the child is killed by SIGSEGV) or yields whatever lies there
ReadPwd(c, trap) ==
    IF c.no = 0 /\ c.pwd = NullPtr
      THEN IF trap THEN [c EXCEPT !.pc = "killed"] ELSE [c EXCEPT !.pwd = PtrTo(GarbagePw)]
      ELSE c

ChildStep(run) ==
    /\ child' = [child EXCEPT !.run = run]
    /\ UNCHANGED daemon_vars

ChildGetpwnam ==
    /\ pc = "child" /\ child.run.pc = "getpwnam"
    /\ \E pw \in PwOutcomes(child.user) : ChildStep(Getpwnam(child.run, child.user, pw))

ChildSetgid ==
    /\ pc = "child" /\ child.run.pc = "setgid"
    /\ \E trap, failed \in BOOLEAN :
         LET c == ReadPwd(child.run, trap) IN
         ChildStep(IF c.pc = "killed" THEN c
                   ELSE Stage(c, "setgid", failed, 1, "set effective group ID", "initgroups"))

ChildInitgroups ==
    /\ pc = "child" /\ child.run.pc = "initgroups"
    /\ \E failed \in BOOLEAN : ChildStep(Stage(child.run, "initgroups", failed, 1,
                                         "initialize the group access list", "setuid"))

ChildSetuid ==
    /\ pc = "child" /\ child.run.pc = "setuid"
    /\ \E failed \in BOOLEAN : ChildStep(Stage(child.run, "setuid", failed, 1,
                                         "set the effective user ID", "clearenv"))

ChildClearenv ==
    /\ pc = "child" /\ child.run.pc = "clearenv"
    /\ \E failed \in BOOLEAN : ChildStep(Clearenv(child.run, failed))

ChildUserEnv ==
    /\ pc = "child" /\ child.run.pc = "setenv"
    /\ \E failed \in BOOLEAN : ChildStep(UserEnv(child.run, failed))

ChildVarsEnv ==
    /\ pc = "child" /\ child.run.pc = "setenv vars"
    /\ \E failed \in BOOLEAN : ChildStep(VarsEnv(child.run, child.vars, child.order, failed))

ChildLaunch ==
    /\ pc = "child" /\ child.run.pc = "launch"
    /\ \E failed \in BOOLEAN : ChildStep(Launch(child.run, failed))

NextChild ==
    \/ ChildGetpwnam
    \/ ChildSetgid
    \/ ChildInitgroups
    \/ ChildSetuid
    \/ ChildClearenv
    \/ ChildUserEnv
    \/ ChildVarsEnv
    \/ ChildLaunch

SpecChild == InitChild /\ [][NextChild]_vars

-----------------------------------------------------------------------------
(* Vocabulary of the properties *)

Range(f) == { f[x] : x \in DOMAIN f }

\* the rules held by good (values of the map) and by bad (elements of the vector)
InGood(e) == e \in Range(good_)
InBad(e)  == e \in Range(bad_)

\* the step processes the record at buffer_[idx]: Wait moved on or was left
Processed == pc = "dispatching" /\ (idx' # idx \/ pc' # pc)

\* the processing of the record ran to the end of the loop body
RanThrough == last'.outcome \notin {"threw", "killed"}

-----------------------------------------------------------------------------
(* Rule table *)

\* C1: at every dispatch boundary (after the registration pass of Watch and
\* after each Wait call) every rule of all is a value of good iff its wd is
\* not -1, is never in both good and bad, and is in good or in bad.
C1_Partition ==
    pc = "waiting" =>
      \A e \in DOMAIN all_ :
        /\ InGood(e) <=> all_[e].wd_ # -1
        /\ ~(InGood(e) /\ InBad(e))
        /\ InGood(e) \/ InBad(e)

\* the file rule a record on a synthetic rule re-registers: its uri is the
\* directory's, a slash and the record's name, and it asked for modify
FileRuleOf(rec) ==
    { f \in DOMAIN all_ :
        /\ all_[f].type_ = "_File"
        /\ Has(all_[f].mask_, IN_MODIFY)
        /\ all_[f].uri_ = all_[good_[rec.wd]].uri_ \o S_slash \o rec.name }

\* a record with create set and IS-DIR clear, on the descriptor of a synthetic
\* rule in good, named as file rule f that is in bad
CreatesWatched(rec, f) ==
    /\ rec.wd \in DOMAIN good_
    /\ all_[good_[rec.wd]].handler_
    /\ Has(rec.mask, IN_CREATE) /\ ~Has(rec.mask, IN_ISDIR)
    /\ f \in FileRuleOf(rec)
    /\ InBad(f)

\* C2: when a record arrives on the descriptor of a synthetic rule in good,
\* with create set, IS-DIR clear and the base name of a file element that
\* requests modify and whose rule is in bad, the file rule is taken out of bad
\* and register is called on it; once the record is processed the rule is in
\* good under its new descriptor if register succeeded, and back in bad if not.
C2_Reregistration ==
    [][ \A f \in DOMAIN all_ :
          (Processed /\ CreatesWatched(buffer_[idx], f) /\ RanThrough) =>
            /\ last'.hentry = f
            /\ last'.handler \in {"registered", "register failed"}
            /\ last'.handler = "registered" =>
                 /\ all_'[f].wd_ # -1
                 /\ all_'[f].wd_ \in DOMAIN good_'
                 /\ good_'[all_'[f].wd_] = f
                 /\ ~(f \in Range(bad_'))
            /\ last'.handler = "register failed" =>
                 /\ all_'[f].wd_ = -1
                 /\ f \in Range(bad_') ]_vars

\* C3: the re-registration handler returns false on every path, so no Spawn is
\* issued for a rule that has a handler; the record that creates a watched
\* file and re-registers its rule produces no spawn.
C3_SyntheticNeverSpawns ==
    child # NoSpawn => ~all_[child.entry].handler_

\* C4: for every record that carries the ignored flag and whose descriptor
\* resolves to a rule in good, with or without a pattern or a handler, once
\* the record has been processed the rule is out of good, is in bad, has
\* wd = -1 and has a non-empty warning.
C4_KernelInvalidation ==
    [][ (/\ Processed
         /\ buffer_[idx].wd \in DOMAIN good_
         /\ Has(buffer_[idx].mask, IN_IGNORED)
         /\ RanThrough) =>
          LET e == good_[buffer_[idx].wd] IN
          /\ ~(e \in Range(good_'))
          /\ e \in Range(bad_')
          /\ all_'[e].wd_ = -1
          /\ all_'[e].warning_ # "" ]_vars

\* C5: an exception thrown during one Wait iteration (a failed read, a failed
\* timestamp conversion, a log formatting failure) is caught inside the Watch
\* loop; the daemon does not leave Watch because of it.
C5_ExceptionCaughtInWatch ==
    last.outcome = "threw" => pc # "escaped"

-----------------------------------------------------------------------------
(* The child *)

StageCalls == {"getpwnam", "setgid", "initgroups", "setuid", "clearenv", "setenv", "execlp"}

\* the call behind each failure text
CallOf(what) ==
    CASE what = "get user info"                    -> "getpwnam"
      [] what = "set effective group ID"           -> "setgid"
      [] what = "initialize the group access list" -> "initgroups"
      [] what = "set the effective user ID"        -> "setuid"
      [] what = "clear environment"                -> "clearenv"
      [] OTHER                                     -> "setenv"

IsStageCall(call) == call \in StageCalls

CallsMade(c) == SelectSeq(c.trace, IsStageCall)

\* C6: in the child, once one of passwd lookup, setgid, initgroups, setuid,
\* clearenv or setenv has failed (a lookup that returns no entry without
\* setting errno included), no later stage is attempted, the failing stage is
\* syslogged, the child exits with -1 and execlp is never reached.
C6_ChildFailureProtocol ==
    (child.run.pc # "none" /\ child.run.what # "") =>
      LET c == child.run
          calls == CallsMade(c)
      IN
      /\ calls[Len(calls)] = CallOf(c.what)
      /\ c.pc \notin {"exec", "killed"}
      /\ c.pc = "exit -1" => c.syslog = c.what

\* C7: a child that reaches execlp made its calls in the order getpwnam,
\* setgid, initgroups, setuid, clearenv, setenv, execlp: the groups are
\* initialised before the uid is dropped, the environment is cleared after the
\* passwd lookup, and execlp is not reached without the group and user switch.
C7_ChildStageOrder ==
    child.run.pc = "exec" =>
      LET calls == CallsMade(child.run)
          n == Len(calls)
      IN
      /\ n >= 6
      /\ SubSeq(calls, 1, 5) = <<"getpwnam", "setgid", "initgroups", "setuid", "clearenv">>
      /\ \A i \in 6 .. (n - 1) : calls[i] = "setenv"
      /\ calls[n] = "execlp"

\* a non-root child at execlp, having exported its variables
C7_witness ==
    /\ child.run.pc = "exec"
    /\ \E i \in DOMAIN child.run.trace : child.run.trace[i] = "setenv"

\* C8: for every spawn, whether the resolved uid is zero or not, the
\* environment of the child at execlp contains every CASPER_INOTIFY_* variable
\* of the placeholder map.
C8_VarsExported ==
    child.run.pc = "exec" =>
      \A i \in DOMAIN VarKeys :
        /\ VarKeys[i] \in DOMAIN child.run.env
        /\ child.run.env[VarKeys[i]] = child.vars[VarKeys[i]]

\* C9: for every spawn, CASPER_INOTIFY_MSG is bound to the expanded message
\* (the rule's message template with its placeholders replaced) and
\* CASPER_INOTIFY_CMD to the rule's unexpanded command template.
C9_PlaceholderBinding ==
    child # NoSpawn =>
      /\ child.vars[K_MSG] = child.msg
      /\ child.vars[K_CMD] = all_[child.entry].cmd_

\* the environment the configuration promises a non-root user pw, with variables vars_
SanitisedEnv(pw, vars_) ==
    [ n \in {N_PATH, N_LOGNAME, N_USER, N_USERNAME, N_HOME, N_SHELL}
              \cup { VarKeys[i] : i \in DOMAIN VarKeys } |->
        CASE n = N_PATH  -> <<"/", "u", "s", "r", "/", "b", "i", "n", ":",
                              "/", "u", "s", "r", "/", "l", "o", "c", "a", "l", "/", "b", "i", "n">>
          [] n \in {N_LOGNAME, N_USER, N_USERNAME} -> pw.pw_name
          [] n = N_HOME  -> pw.pw_dir
          [] n = N_SHELL -> pw.pw_shell
          [] OTHER       -> vars_[n] ]

\* C10: for a non-root target user the environment of the child at execlp is
\* exactly PATH=/usr/bin:/usr/local/bin, LOGNAME, USER, USERNAME (pw_name),
\* HOME (pw_dir), SHELL (pw_shell) and the CASPER_INOTIFY_* variables, whatever
\* the environment of the daemon: no inherited variable survives.
C10_SanitisedEnvironment ==
    (/\ child.run.pc = "exec"
     /\ child.user \in DOMAIN Passwd
     /\ Passwd[child.user].pw_uid # 0) =>
       child.run.env = SanitisedEnv(Passwd[child.user], child.vars)

\* a non-root child at execlp whose daemon had a PATH of its own
C10_witness ==
    /\ child.run.pc = "exec"
    /\ child.user = "nobody"
    /\ N_PATH \in DOMAIN child.run.inherited
    /\ child.run.inherited[N_PATH] # child.run.env[N_PATH]

-----------------------------------------------------------------------------
(* Names and spawns of a record *)

\* the tokens of the bits set in a mask, in the order of Wait
TokensOf(mask) ==
       (IF Has(mask, IN_OPEN)   THEN <<S_open>>     ELSE <<>>)
    \o (IF Has(mask, IN_CLOSE)  THEN <<S_closed>>   ELSE <<>>)
    \o (IF Has(mask, IN_ACCESS) THEN <<S_accessed>> ELSE <<>>)
    \o (IF Has(mask, IN_CREATE) THEN <<S_created>>  ELSE <<>>)
    \o (IF Has(mask, IN_MODIFY) THEN <<S_modified>> ELSE <<>>)
    \o (IF Has(mask, IN_DELETE) \/ Has(mask, IN_DELETE_SELF) THEN <<S_deleted>> ELSE <<>>)
    \o (IF Has(mask, IN_IGNORED) THEN <<S_ignored>> ELSE <<>>)

\* token, ", ", token, ...
RECURSIVE JoinTokens(_)
JoinTokens(toks) ==
    IF toks = <<>> THEN <<>>
    ELSE IF Len(toks) = 1 THEN Head(toks)
    ELSE Head(toks) \o <<",", " ">> \o JoinTokens(Tail(toks))

\* the name a record's own mask stands for
OwnName(mask) ==
    IF TokensOf(mask) = <<>> THEN <<"?", "?", "?">> ELSE JoinTokens(TokensOf(mask))

\* C11: for every dispatched record, at any position of any buffer, the event
\* name is the ", "-join of the tokens of exactly the bits set in that record's
\* own mask, in the order open, closed, accessed, created, modified, deleted,
\* ignored; it is "???" when none of these bits is set.
C11_ActionName ==
    last.name # <<>> => last.name = OwnName(last.rec.mask)

\* is sequence a the tail end of sequence b?
EndsWith(b, a) ==
    /\ Len(b) >= Len(a)
    /\ SubSeq(b, Len(b) - Len(a) + 1, Len(b)) = a

SpawnsFor(k) == Cardinality({ i \in DOMAIN spawns : spawns[i].rec = k })

C14_PatternFilter ==
    (last.entry # 0 /\ last.outcome \notin {"none", "threw", "killed"}) =>
      LET ent == all_[last.entry]
          object_name == IF Len(last.rec.name) > 0 THEN last.rec.name ELSE ent.uri_
          filtered == Len(ent.pattern_) # 0 /\ ~FnMatch(ent.pattern_, object_name)
      IN
      /\ filtered =>
           /\ last.outcome = "pattern skip"
           /\ last.handler = ""
           /\ last.name = <<>>
           /\ ~last.ignored /\ ~last.untracked
           /\ SpawnsFor(idx - 1) = 0
      /\ ~filtered => last.outcome \in {"completed", "handler skip"}

\* a record named b on a directory rule with pattern a* has been skipped
C14_witness ==
    /\ last.outcome = "pattern skip"
    /\ last.rec.name = S_b
    /\ all_[last.entry].pattern_ = P_a_star
    /\ ~all_[last.entry].handler_

-----------------------------------------------------------------------------
(* Loader *)

\* the uri up to, and without, its last '/'; the empty set when it has none
ParentOf(uri) ==
    LET at == { p \in DOMAIN uri : uri[p] = "/" } IN
    IF at = {} THEN {}
    ELSE { SubSeq(uri, 1, (CHOOSE p \in at : \A q \in at : q <= p) - 1) }

\* C15: after Load, for every file rule of all whose mask contains modify
\* there is in all a directory rule with the re-registration handler whose uri
\* is the file uri up to, not including, its last '/' and whose mask contains create.
C15_SyntheticRuleExists ==
    \A f \in DOMAIN all_ :
      (all_[f].type_ = "_File" /\ Has(all_[f].mask_, IN_MODIFY)) =>
        \E d \in DOMAIN all_ :
          /\ all_[d].type_ = "_Directory"
          /\ all_[d].handler_
          /\ all_[d].uri_ \in ParentOf(all_[f].uri_)
          /\ Has(all_[d].mask_, IN_CREATE)

\* Load has returned with a file rule that asks for modify
C15_witness ==
    /\ pc = "loaded"
    /\ \E f \in DOMAIN all_ : all_[f].type_ = "_File" /\ Has(all_[f].mask_, IN_MODIFY)

\* C16: at every moment between Load and Unload the file uri set is the set of
\* uris of the File rules of all without handler and the directory uri set is
\* the set of uris of the Directory rules of all without handler; the uri of a
\* synthetic rule is in a uri set only if the user declared it too.
C16_UriSets ==
    /\ uris_.files_ =
         { all_[e].uri_ : e \in { x \in DOMAIN all_ : all_[x].type_ = "_File" /\ ~all_[x].handler_ } }
    /\ uris_.directories_ =
         { all_[e].uri_ : e \in { x \in DOMAIN all_ : all_[x].type_ = "_Directory" /\ ~all_[x].handler_ } }

\* the daemon waits with a synthetic rule whose uri is in no uri set
C16_witness ==
    /\ pc = "waiting"
    /\ \E e \in DOMAIN all_ :
         /\ all_[e].handler_
         /\ all_[e].uri_ \notin uris_.directories_
         /\ all_[e].uri_ \notin uris_.files_

-----------------------------------------------------------------------------
(* The string and mask functions on their own: a call of events2mask or of   *)
(* Replace with arguments from bounded sets, `last` holding the call.        *)

\* the strings an events array may hold: the keys of the map, the keyword the
\* map misses, and one no map has
Keywords == DOMAIN sk_field_key_to_id_map_ \cup {"delete_self", "bogus"}

EventArrays == UNION { [1 .. n -> Keywords] : n \in 0 .. MaxEvents }

\* a_from of the calls Spawn makes: "${" + key + "}"
Froms == { Placeholder(K_MSG), Placeholder(K_CMD) }

\* a placeholder, a placeholder without its first or without its last
\* character, and single characters
Pieces ==
    { Placeholder(K_MSG), Placeholder(K_CMD), Tail(Placeholder(K_MSG)),
      SubSeq(Placeholder(K_MSG), 1, Len(Placeholder(K_MSG)) - 1),
      <<"$">>, <<"}">>, <<"x">> }

Values == { Concat(ps) : ps \in UNION { [1 .. n -> Pieces] : n \in 0 .. MaxPieces } }

\* a_to: empty, plain, a part of the placeholder, the placeholder inside a value
Tos == { <<>>, <<"x">>, <<"$">>, Placeholder(K_MSG), <<"x">> \o Placeholder(K_MSG) }

LibCall(fn, events, value, from, to) ==
    [ fn |-> fn, events |-> events, value |-> value, from |-> from, to |-> to,
      mask |-> {}, ret |-> <<>>, ret2 |-> <<>> ]

LibCalls ==
    { LibCall("events2mask", a, <<>>, <<>>, <<>>) : a \in EventArrays }
      \cup { LibCall("Replace", <<>>, c[1], c[2], c[3]) : c \in Values \X Froms \X Tos }

InitLib ==
    /\ pc = "call"
    /\ log_fp = "null"
    /\ inotify_fd = -1
    /\ hostname_ = <<>>
    /\ all_ = <<>>
    /\ good_ = EmptyMap
    /\ bad_ = <<>>
    /\ uris_ = [directories_ |-> {}, files_ |-> {}]
    /\ buffer_ = <<>>
    /\ idx = 0
    /\ actions = <<>>
    /\ kernel = KernelInit
    /\ spawns = <<>>
    /\ child = NoSpawn
    /\ last \in LibCalls

lib_vars == <<log_fp, inotify_fd, hostname_, all_, good_, bad_, uris_, buffer_,
              idx, actions, kernel, spawns, child>>

\* mask = events2mask(events)
CallEvents2mask ==
    /\ pc = "call"
    /\ last.fn = "events2mask"
    /\ last' = [last EXCEPT !.mask = events2mask(last.events)]
    /\ pc' = "returned"
    /\ UNCHANGED lib_vars

\* ret = Replace(value, from, to)
CallReplace ==
    /\ pc = "call"
    /\ last.fn = "Replace"
    /\ last' = [last EXCEPT !.ret = Replace(last.value, last.from, last.to)]
    /\ pc' = "returned"
    /\ UNCHANGED lib_vars

\* ret2 = Replace(ret, from, to)
CallReplaceAgain ==
    /\ pc = "returned"
    /\ last.fn = "Replace"
    /\ last' = [last EXCEPT !.ret2 = Replace(last.ret, last.from, last.to)]
    /\ pc' = "returned twice"
    /\ UNCHANGED lib_vars

NextLib ==
    \/ CallEvents2mask
    \/ CallReplace
    \/ CallReplaceAgain

SpecLib == InitLib /\ [][NextLib]_vars

\* the event class of each keyword
KeywordClass ==
    [ k \in { "access", "attrib", "close", "close_write", "close_nowrite", "create",
              "delete", "delete_self", "modify", "move", "move_self", "move_from",
              "move_to", "open" } |->
        CASE k = "access"        -> IN_ACCESS
          [] k = "attrib"        -> IN_ATTRIB
          [] k = "close"         -> IN_CLOSE_WRITE \cup IN_CLOSE_NOWRITE
          [] k = "close_write"   -> IN_CLOSE_WRITE
          [] k = "close_nowrite" -> IN_CLOSE_NOWRITE
          [] k = "create"        -> IN_CREATE
          [] k = "delete"        -> IN_DELETE
          [] k = "delete_self"   -> IN_DELETE_SELF
          [] k = "modify"        -> IN_MODIFY
          [] k = "move"          -> IN_MOVED_FROM \cup IN_MOVED_TO
          [] k = "move_self"     -> IN_MOVE_SELF
          [] k = "move_from"     -> IN_MOVED_FROM
          [] k = "move_to"       -> IN_MOVED_TO
          [] k = "open"          -> IN_OPEN ]

\* C17: each of the 14 keywords access, attrib, close, close_write,
\* close_nowrite, create, delete, delete_self, modify, move, move_self,
\* move_from, move_to, open maps to its kernel event class; the mask of an
\* events array is the OR of the classes of its recognised keywords, and an
\* unknown keyword contributes nothing.
C17_KeywordToMask ==
    (pc = "returned" /\ last.fn = "events2mask") =>
      last.mask = UNION { IF last.events[i] \in DOMAIN KeywordClass
                            THEN KeywordClass[last.events[i]]
                            ELSE {} : i \in DOMAIN last.events }

\* a_from occurs in a_value
Occurs(a_from, a_value) ==
    \E p \in 1 .. Len(a_value) :
      /\ p + Len(a_from) - 1 <= Len(a_value)
      /\ \A i \in 1 .. Len(a_from) : a_value[p + i - 1] = a_from[i]

\* C18: template expansion of a string that contains no placeholder returns the
\* string unchanged: Replace(value, from, to) = value whenever from does not
\* occur in value, for every to.
C18_NoPlaceholderUnchanged ==
    (pc = "returned" /\ last.fn = "Replace" /\ ~Occurs(last.from, last.value)) =>
      last.ret = last.value

\* Replace has returned a string that holds the first character of a_from and
\* all of a_from but its last character, and not a_from
C18_witness ==
    /\ pc = "returned" /\ last.fn = "Replace"
    /\ ~Occurs(last.from, last.value)
    /\ Occurs(SubSeq(last.from, 1, Len(last.from) - 1), last.value)
    /\ last.to # <<>>
    /\ last.ret = last.value

\* C19 as stated: for every string s, placeholder X and value Y,
\* Replace(Replace(s, X, Y), X, Y) = Replace(s, X, Y).
C19_Idempotent ==
    (pc = "returned twice" /\ last.fn = "Replace") => last.ret2 = last.ret

\* C19: Replace(Replace(s, X, Y), X, Y) = Replace(s, X, Y) exactly when X does
\* not occur in Replace(s, X, Y) or Y is X: one call does not scan the text it
\* introduced, the next call scans all of its argument.
C19_SecondPass ==
    (pc = "returned twice" /\ last.fn = "Replace") =>
      (last.ret2 = last.ret <=> (~Occurs(last.from, last.ret) \/ last.to = last.from))

\* X occurred in s, was substituted by another value, and the second
\* substitution changed nothing
C19_witness ==
    /\ pc = "returned twice" /\ last.fn = "Replace"
    /\ Occurs(last.from, last.value)
    /\ last.to # last.from
    /\ last.ret # last.value
    /\ last.ret2 = last.ret

-----------------------------------------------------------------------------
(* Expansion of the templates *)

\* the keys whose placeholder stands in value at position p
KeysAt(value, vars_, p) ==
    { k \in DOMAIN vars_ :
        /\ p + Len(Placeholder(k)) - 1 <= Len(value)
        /\ SubSeq(value, p, p + Len(Placeholder(k)) - 1) = Placeholder(k) }

\* one pass over the template: every placeholder of the template gives way to
\* its value, and no value is looked into
RECURSIVE ExpandOnce(_, _, _)
ExpandOnce(value, vars_, p) ==
    IF p > Len(value) THEN <<>>
    ELSE IF KeysAt(value, vars_, p) = {}
      THEN <<value[p]>> \o ExpandOnce(value, vars_, p + 1)
      ELSE LET k == CHOOSE x \in KeysAt(value, vars_, p) : TRUE
           IN vars_[k] \o ExpandOnce(value, vars_, p + Len(Placeholder(k)))

\* C20: when Spawn expands a command or message template a placeholder-shaped
\* substring inside a substituted value (a file name, the hostname, the message
\* or the command template) appears literally in the result and is never itself
\* substituted: the result is the template with each of its own placeholders,
\* taken in the order EVENT, OBJECT, NAME, DATETIME, HOSTNAME, MSG, CMD,
\* replaced by its value.
C20_NoRecursiveExpansion ==
    child # NoSpawn =>
      /\ child.cmd = ExpandOnce(all_[child.entry].cmd_, child.vars, 1)
      /\ child.msg = ExpandOnce(all_[child.entry].msg_, child.vars, 1)

-----------------------------------------------------------------------------
(* Registration pass, Register and Unregister *)

C22_DispatchOrder ==
    [][ pc = "dispatching" =>
          \* the next record dispatched is the one that follows in the buffer
          /\ pc' = "dispatching" => (buffer_' = buffer_ /\ idx' \in {idx, idx + 1})
          \* a spawn is for the record being dispatched, after those of earlier records
          /\ spawns' # spawns =>
               /\ Len(spawns') = Len(spawns) + 1
               /\ SubSeq(spawns', 1, Len(spawns)) = spawns
               /\ spawns'[Len(spawns')].rec = idx
               /\ \A i \in DOMAIN spawns : spawns[i].rec < idx
          \* Wait is called again, and reads, only behind the last record
          /\ pc' = "waiting" => idx = Len(buffer_) ]_vars

\* the step is a call of Unload that returns: by Watch, or by main
Unloads == pc' \in {"returned", "exited"} /\ pc' # pc

\* C23: from any reachable state, when Unload returns, inotify_rm_watch has been
\* invoked for every rule whose wd was not -1, all, good, bad and both uri sets
\* are empty, the inotify descriptor is closed (fd = -1) and the log sink is
\* closed (no log record is written afterwards).
C23_Teardown ==
    [][ /\ Unloads =>
             /\ \A e \in DOMAIN all_ :
                  all_[e].wd_ # -1 =>
                    /\ all_[e].wd_ \notin LiveWds(kernel')
                    /\ all_[e].wd_ \in LiveWds(kernel) =>
                         \E i \in DOMAIN kernel'.queue :
                           /\ kernel'.queue[i].wd = all_[e].wd_
                           /\ kernel'.queue[i].mask = IN_IGNORED
             /\ all_' = <<>> /\ good_' = EmptyMap /\ bad_' = <<>>
             /\ uris_'.directories_ = {} /\ uris_'.files_ = {}
             /\ inotify_fd' = -1
             /\ log_fp' = "null"
        /\ pc \in {"returned", "exited"} => (log_fp = "null" /\ log_fp' = "null") ]_vars

\* main has called Unload after an exception left Watch with rules registered,
\* and Unload removed their watches: the kernel wrote no record of its own
C23_witness ==
    /\ pc = "exited" /\ last.exc = "inotify"
    /\ all_ = <<>> /\ inotify_fd = -1 /\ log_fp = "null"
    /\ kernel.next > 1 /\ kernel.made = 0
    /\ LiveWds(kernel) = {}
    /\ \E i \in DOMAIN kernel.queue : kernel.queue[i].mask = IN_IGNORED

\* C24: a directory element whose events array yields an empty mask (no
\* recognised keyword, or no events at all) is skipped: it adds no rule to all
\* and no uri to the directory set; every emitted directory rule has the
\* only-if-directory flag in its mask.  So every declared directory rule has
\* the flag and, besides it, the class of a recognised keyword.
C24_DirectoryElements ==
    /\ \A e \in DOMAIN all_ :
         (all_[e].type_ = "_Directory" /\ ~all_[e].handler_) =>
           /\ IN_ONLYDIR \subseteq all_[e].mask_
           /\ all_[e].mask_ \ IN_ONLYDIR # {}
    /\ \A u \in uris_.directories_ :
         \E e \in DOMAIN all_ :
           /\ all_[e].type_ = "_Directory" /\ all_[e].uri_ = u
           /\ all_[e].mask_ \ IN_ONLYDIR # {}

\* a file rule with a synthetic rule on its parent directory
Retriable(e) ==
    /\ all_[e].type_ = "_File" /\ ~all_[e].handler_
    /\ \E d \in DOMAIN all_ :
         all_[d].handler_ /\ all_[d].uri_ \in ParentOf(all_[e].uri_)

-----------------------------------------------------------------------------
(* Register and Unregister on their own: one call on a rule table the daemon *)
(* has when Wait is entered, `last` holding the call.                        *)

\* the registration pass of Watch from entry i on, oks[i] the outcome of Register
RECURSIVE RegisterAll(_, _, _)
RegisterAll(t, oks, i) ==
    IF i > Len(t.all_) THEN t
    ELSE RegisterAll(Track(Register(t, i, oks[i]), i, oks[i]), oks, i + 1)

\* the outcomes the kernel can give to the pass
RECURSIVE Feasible(_, _, _)
Feasible(t, oks, i) ==
    IF i > Len(t.all_) THEN TRUE
    ELSE /\ oks[i] => CanAddWatch(t.kernel, t.all_[i].uri_)
         /\ Feasible(Track(Register(t, i, oks[i]), i, oks[i]), oks, i + 1)

\* the table after Wait has dispatched the IN_IGNORED record of the watch wd
Invalidated(t, wd) ==
    LET t1 == Untrack(t, t.good_[wd], W_removed) IN
    [t1 EXCEPT !.kernel = [inotify_rm_watch(t.kernel, wd) EXCEPT !.queue = <<>>]]

\* the tables at the entry of Wait: after the pass, and after the pass and one
\* IN_IGNORED record that the pattern of its rule lets through
TablesOf(obj) ==
    LET st == LoadEntries(obj)
        t0 == [ all_ |-> st.all_, good_ |-> EmptyMap, bad_ |-> <<>>, kernel |-> KernelInit ]
        passed == { RegisterAll(t0, oks, 1) :
                      oks \in { f \in [DOMAIN st.all_ -> BOOLEAN] : Feasible(t0, f, 1) } }
    IN passed \cup
         UNION { { Invalidated(t, wd) :
                     wd \in { w \in DOMAIN t.good_ \cap LiveWds(t.kernel) :
                                LET ent == t.all_[t.good_[w]] IN
                                Len(ent.pattern_) = 0 \/ FnMatch(ent.pattern_, ent.uri_) } }
                 : t \in passed }

\* a call: the function, the rule, the rule as it was, the value returned
NoCall == [ fn |-> "none", e |-> 0, was |-> <<>>, ret |-> FALSE ]

InitTable ==
    /\ pc = "table"
    /\ log_fp = "open"
    /\ inotify_fd = 3
    /\ hostname_ = S_host
    /\ buffer_ = <<>>
    /\ idx = 0
    /\ actions = <<>>
    /\ spawns = <<>>
    /\ child = NoSpawn
    /\ last = NoCall
    /\ \E obj \in Documents :
         /\ uris_ = LoadEntries(obj).uris_
         /\ \E t \in TablesOf(obj) :
              /\ all_ = t.all_ /\ good_ = t.good_ /\ bad_ = t.bad_ /\ kernel = t.kernel

table_frame == <<log_fp, inotify_fd, hostname_, uris_, buffer_, idx, actions, spawns, child>>

\* API::Register on a rule that holds no watch, as the pass and Handler call it
CallRegister ==
    /\ pc = "table"
    /\ \E e \in DOMAIN all_, ok \in BOOLEAN :
         /\ all_[e].wd_ = -1
         /\ ok => CanAddWatch(kernel, all_[e].uri_)
         /\ LET t == Register(Table, e, ok) IN
            /\ Commit(t)
            /\ last' = [ fn |-> "Register", e |-> e, was |-> all_[e],
                         ret |-> t.all_[e].wd_ # -1 ]
    /\ pc' = "returned"
    /\ UNCHANGED table_frame

\* API::Unregister; removed: inotify_rm_watch returns 0
CallUnregister ==
    /\ pc = "table"
    /\ \E e \in DOMAIN all_, removed \in BOOLEAN :
         /\ all_[e].wd_ = -1 => removed
         /\ LET t == Unregister(Table, e, removed) IN
            /\ Commit(t)
            /\ last' = [ fn |-> "Unregister", e |-> e, was |-> all_[e],
                         ret |-> all_[e].wd_ = -1 \/ removed ]
    /\ pc' = "returned"
    /\ UNCHANGED table_frame

NextTable ==
    \/ CallRegister
    \/ CallUnregister

SpecTable == InitTable /\ [][NextTable]_vars

\* C26: on success Register stores the descriptor returned by the kernel in the
\* rule's wd, clears error and warning and returns true; on failure it returns
\* false with wd = -1 and a non-empty error, and leaves the rule's warning and
\* every other rule unchanged.  Register itself changes neither good nor bad.
C26_Register ==
    [][ last'.fn = "Register" =>
          LET e == last'.e IN
          /\ last'.ret =>
               /\ all_'[e].wd_ # -1
               /\ all_'[e].wd_ = kernel'.watches[all_[e].uri_]
               /\ all_'[e].error_ = "" /\ all_'[e].warning_ = ""
          /\ ~last'.ret =>
               /\ all_'[e].wd_ = -1
               /\ all_'[e].error_ # ""
               /\ all_'[e].warning_ = all_[e].warning_
               /\ kernel' = kernel
          /\ all_' = [all_ EXCEPT ![e].wd_ = all_'[e].wd_, ![e].error_ = all_'[e].error_,
                                  ![e].warning_ = all_'[e].warning_]
          /\ good_' = good_ /\ bad_' = bad_ ]_vars

\* Register has succeeded on a rule of bad that carried a warning
C26_witness ==
    /\ pc = "returned" /\ last.fn = "Register" /\ last.ret
    /\ InBad(last.e)
    /\ last.was.warning_ # ""
    /\ all_[last.e].wd_ # -1 /\ all_[last.e].warning_ = ""

-----------------------------------------------------------------------------
(* Leaving the dispatch loop *)

\* C28: if logging the caught exception itself throws, the dispatch loop
\* breaks; Watch then unregisters every rule that is in good (each such rule
\* ends with wd = -1 and is no longer in good), unloads all tables and returns 0.
C28_ShutdownAfterLogFailure ==
    [][ pc = "unregistering" =>
          \* Watch goes on to its return
          /\ pc' \in {"unregistering", "returned"}
          \* the rule of good at the key the loop has moved to, its watch removed
          /\ (idx' # idx /\ idx' \in DOMAIN good_ /\ idx' \notin LiveWds(kernel')) =>
               LET e == good_[idx'] IN
               /\ all_'[e].wd_ = -1
               /\ ~(e \in Range(good_'))
          /\ pc' = "returned" =>
               /\ all_' = <<>> /\ good_' = EmptyMap /\ bad_' = <<>>
               /\ uris_'.directories_ = {} /\ uris_'.files_ = {} ]_vars

-----------------------------------------------------------------------------
(* Records Wait passes over, and Spawn without a child *)

\* C29: a record whose wd is not a key of good (a stale record of a rule
\* already demoted, or a queue-overflow record) is skipped: no Event is built,
\* no handler is called, nothing is spawned, no rule and no table changes, and
\* the records that follow it in the buffer are still dispatched.
C29_UnknownDescriptor ==
    [][ (Processed /\ buffer_[idx].wd \notin DOMAIN good_) =>
          /\ last'.outcome = "unknown wd"
          /\ last'.entry = 0 /\ last'.name = <<>> /\ last'.handler = ""
          /\ ~last'.ignored /\ ~last'.untracked
          /\ spawns' = spawns /\ child' = NoSpawn
          /\ all_' = all_ /\ good_' = good_ /\ bad_' = bad_
          /\ kernel'.watches = kernel.watches
          /\ idx' = idx + 1
          /\ IF idx < Len(buffer_)
               THEN pc' = "dispatching" /\ buffer_' = buffer_
               ELSE pc' = "waiting" ]_vars

\* an overflow record at the head of a buffer has been skipped and the record
\* of a registered rule behind it is the next to be dispatched
C29_witness ==
    /\ pc = "dispatching" /\ idx = 2
    /\ last.outcome = "unknown wd"
    /\ last.rec.wd = -1
    /\ buffer_[1].wd = -1
    /\ buffer_[2].wd \in DOMAIN good_

\* the step is a call of Spawn in which fork returns a negative value
ForkFails == Processed /\ child' # NoSpawn /\ ~child'.forked

\* C30: when fork returns a negative value, Spawn logs and returns; no rule and
\* no table changes, no child exists for that record, and the remaining records
\* of the buffer and later buffers are dispatched as usual.
C30_ForkFailure ==
    [][ ForkFails =>
          LET e == good_[buffer_[idx].wd] IN
          \* Spawn has been called for this record and has returned
          /\ child'.entry = e
          /\ spawns' = Append(spawns, [entry |-> e, rec |-> idx, name |-> last'.name])
          /\ last'.outcome = "completed"
          \* no child
          /\ child'.run = NoRun
          \* the table is as the handler, if the rule has one, left it
          /\ ~all_[e].handler_ => (all_' = all_ /\ good_' = good_ /\ bad_' = bad_)
          /\ \A x \in DOMAIN all_ : x # last'.hentry => all_'[x] = all_[x]
          /\ kernel'.queue = kernel.queue
          \* the loop goes on
          /\ idx' = idx + 1
          /\ actions' = <<>>
          /\ IF idx < Len(buffer_)
               THEN pc' = "dispatching" /\ buffer_' = buffer_
               ELSE pc' = "waiting" ]_vars

\* fork has failed for the first record of a buffer and the second record is
\* the next to be dispatched
C30_witness ==
    /\ pc = "dispatching" /\ idx = 2
    /\ child # NoSpawn /\ ~child.forked /\ child.run = NoRun
    /\ Len(spawns) = 1 /\ spawns[1].rec = 1
    /\ last.outcome = "completed"

-----------------------------------------------------------------------------
(* Frame of registration and dispatch *)

\* the fields of a rule that the loader sets
Loaded(r) ==
    [ type_ |-> r.type_, uri_ |-> r.uri_, mask_ |-> r.mask_, user_ |-> r.user_,
      cmd_ |-> r.cmd_, msg_ |-> r.msg_, pattern_ |-> r.pattern_, handler_ |-> r.handler_ ]

\* C31: between Load and Unload no rule is added to or removed from all, and
\* the type, uri, mask, user, cmd, msg and pattern of a rule never change;
\* registration and dispatch change only wd, error, warning and the membership
\* of rules in good and bad, and neither Spawn nor Ignore changes any of them.
C31_Frame ==
    [][ (pc \in {"loaded", "registering", "waiting", "dispatching", "unregistering"}
           /\ ~Unloads) =>
          /\ DOMAIN all_' = DOMAIN all_
          /\ \A e \in DOMAIN all_ : Loaded(all_'[e]) = Loaded(all_[e])
          /\ uris_' = uris_
          \* a record of a rule without handler that ends in Spawn or in Ignore
          /\ (/\ Processed
              /\ last'.outcome = "completed"
              /\ ~all_[last'.entry].handler_
              /\ ~last'.untracked) =>
               /\ spawns' # spawns \/ last'.ignored
               /\ all_' = all_ /\ good_' = good_ /\ bad_' = bad_ ]_vars

\* records have been dispatched: one has demoted a rule, which has its warning
C31_witness ==
    /\ pc \in {"waiting", "dispatching"}
    /\ last.outcome = "completed" /\ last.untracked
    /\ InBad(last.entry)
    /\ all_[last.entry].wd_ = -1 /\ all_[last.entry].warning_ # ""

-----------------------------------------------------------------------------
(* Children of Spawn and the dispatch loop *)

\* the step is a call of Spawn in which fork returns the pid of a child
ForkSucceeds == Processed /\ child' # NoSpawn /\ child'.forked

\* C32: after a successful fork the parent returns to dispatch without waiting
\* for the child; the dispatch of later records and later reads makes progress
\* even if a spawned child never terminates, and no outcome of a child changes
\* the rule table or the dispatch of later records.
C32_DetachedChildren ==
    \* the parent ends the loop body as after any Spawn and keeps nothing of the child
    /\ [][ ForkSucceeds =>
             LET e == good_[buffer_[idx].wd] IN
             /\ child'.entry = e
             /\ child'.run = NoRun
             /\ last'.outcome = "completed"
             /\ ~all_[e].handler_ => (all_' = all_ /\ good_' = good_ /\ bad_' = bad_)
             /\ idx' = idx + 1
             /\ actions' = <<>>
             /\ IF idx < Len(buffer_)
                  THEN pc' = "dispatching" /\ buffer_' = buffer_
                  ELSE pc' = "waiting" ]_vars
    \* with a child forked and not heard of again, the next record is taken up
    /\ \A i \in 1 .. MaxQueue :
         (pc = "dispatching" /\ idx = i /\ child # NoSpawn /\ child.forked)
           ~> ~(pc = "dispatching" /\ idx = i)
    \* and with records in the queue the next read returns
    /\ (pc = "waiting" /\ kernel.queue # <<>>) ~> (pc # "waiting")

\* a child has been forked for the first record of a buffer, nothing more is
\* known of it, and the second record is the next to be dispatched
C32_witness ==
    /\ pc = "dispatching" /\ idx = 2
    /\ child # NoSpawn /\ child.forked /\ child.run = NoRun
    /\ Len(spawns) = 1 /\ spawns[1].rec = 1

\* the path Handler would try for record rec on rule e
Candidate(rec, e) == all_[e].uri_ \o S_slash \o rec.name

\* the record is none that Handler acts on: a directory, no create, a path that
\* is no user file, or no rule of bad by that path
NonApplicable(rec, e) ==
    \/ Has(rec.mask, IN_ISDIR)
    \/ ~Has(rec.mask, IN_CREATE)
    \/ Candidate(rec, e) \notin uris_.files_
    \/ \A i \in DOMAIN bad_ : all_[bad_[i]].uri_ # Candidate(rec, e)

\* C33: when the record on a synthetic rule is for a directory, or does not
\* carry create, or the candidate path is not in the user file URI set, or no
\* rule with that URI is in bad, the handler calls register on nothing and
\* leaves good, bad and every rule's wd, error and warning unchanged.
C33_HandlerNotApplicable ==
    [][ ( /\ Processed
          /\ last'.handler \notin {"", "log threw"}
          /\ NonApplicable(last'.rec, last'.entry) ) =>
            /\ last'.handler \in {"rejected", "not applicable", "not found"}
            /\ last'.hentry = 0
            /\ last'.outcome = "handler skip"
            /\ kernel'.watches = kernel.watches /\ kernel'.masks = kernel.masks
            /\ kernel'.next = kernel.next
            /\ all_' = all_ /\ good_' = good_ /\ bad_' = bad_ ]_vars

\* a create record for a file that is a user file, on a synthetic rule, with
\* the file's rule out of bad: the handler searched bad and found nothing
C33_witness ==
    /\ last.outcome = "handler skip" /\ last.handler = "not found"
    /\ all_[last.entry].handler_
    /\ Has(last.rec.mask, IN_CREATE) /\ ~Has(last.rec.mask, IN_ISDIR)
    /\ Candidate(last.rec, last.entry) \in uris_.files_
    /\ \A i \in DOMAIN bad_ : all_[bad_[i]].uri_ # Candidate(last.rec, last.entry)

\* C34: for every dispatched record, inside_a_watched_directory is true iff the
\* record's name length is > 0; when true the object name is the record's name
\* and the parent name is the rule's URI, when false the object name is the
\* rule's URI and there is no parent name; the object kind is 'd' iff the
\* record's mask has the IS-DIR flag, else 'f'.
C34_EventConstruction ==
    [][ (Processed /\ last'.outcome \in {"pattern skip", "handler skip", "completed"}) =>
          LET rec  == buffer_[idx]
              rule == all_[good_[rec.wd]]
              e    == last'.event
          IN
          /\ last'.rec = rec /\ last'.entry = good_[rec.wd]
          /\ e.mask_ = rec.mask
          /\ e.inside_a_watched_directory_ <=> Len(rec.name) > 0
          /\ e.inside_a_watched_directory_ =>
               /\ e.object_name_c_str_ = rec.name
               /\ e.parent_object_name_ = PtrTo(rule.uri_)
          /\ ~e.inside_a_watched_directory_ =>
               /\ e.object_name_c_str_ = rule.uri_
               /\ e.parent_object_name_ = NullPtr
          /\ e.object_type_c_ = (IF Has(rec.mask, IN_ISDIR) THEN "d" ELSE "f")
          /\ e.object_type_c_ \in {"d", "f"} ]_vars

\* a record without a name has been dispatched on a rule: the object is the rule's URI
C34_witness ==
    /\ last.outcome = "completed"
    /\ last.rec.name = <<>>
    /\ ~last.event.inside_a_watched_directory_
    /\ last.event.parent_object_name_ = NullPtr
    /\ last.event.object_type_c_ = "f"

-----------------------------------------------------------------------------
(* The record parser of Wait, on the cells of the buffer *)

\* cells of the header of a record: wd, mask, cookie, len
IN_STRUCT_EVENT_SIZE == 4

\* the kernel pads a name with null cells, one at least, to a multiple of this
NameAlign == 2

\* the len field of a record with this name
PadLen(name) ==
    IF name = <<>> THEN 0 ELSE ((Len(name) \div NameAlign) + 1) * NameAlign

\* one record as read returns it
EncodeRecord(r) ==
    <<r.wd, r.mask, r.cookie, PadLen(r.name)>>
      \o r.name \o Repeat(0, PadLen(r.name) - Len(r.name))

\* what read returns for the records rs
RECURSIVE EncodeBuffer(_)
EncodeBuffer(rs) ==
    IF rs = <<>> THEN <<>> ELSE EncodeRecord(Head(rs)) \o EncodeBuffer(Tail(rs))

\* records: unknown and known descriptor, create of a file and of a directory,
\* no name, a name of one cell and one that fills its alignment
ParseRecords ==
    [ wd : {-1, 1}, mask : {256, 1073742080}, cookie : {0},
      name : { <<>>, <<97>>, <<97, 98>> } ]

\* the ways through the loop body that end in the next record
LoopPaths == { "unknown wd", "pattern skip", "handler skip", "completed" }

\* while ( idx < length ), on buffer b
MoreRecords(b, i) == i < Len(b)

\* event->len of the record at offset i
EventLen(b, i) == b[i + 4]

\* the header and name of the record at offset i
EventBlock(b, i) == SubSeq(b, i + 1, i + IN_STRUCT_EVENT_SIZE + EventLen(b, i))

InitParse ==
    /\ pc = "parsing"
    /\ log_fp = "open"
    /\ inotify_fd = 3
    /\ hostname_ = S_host
    /\ all_ = <<>>
    /\ good_ = EmptyMap
    /\ bad_ = <<>>
    /\ uris_ = [directories_ |-> {}, files_ |-> {}]
    /\ idx = 0
    /\ actions = <<>>
    /\ kernel = KernelInit
    /\ spawns = <<>>
    /\ child = NoSpawn
    /\ \E n \in 1 .. MaxParsed : \E rs \in [1 .. n -> ParseRecords] :
         /\ buffer_ = EncodeBuffer(rs)
         /\ last = [ fn |-> "Wait", records |-> rs, offsets |-> <<>>, blocks |-> <<>>,
                     paths |-> <<>> ]

parse_frame == <<log_fp, inotify_fd, hostname_, all_, good_, bad_, uris_, buffer_,
                 actions, kernel, spawns, child>>

\* the loop body with an unknown-descriptor path that steps over the header only
ParseRecordSkipsHeaderOnly ==
    /\ pc = "parsing"
    /\ MoreRecords(buffer_, idx)
    /\ \E path \in LoopPaths :
         /\ last' = [last EXCEPT !.offsets = Append(@, idx),
                                 !.blocks  = Append(@, EventBlock(buffer_, idx)),
                                 !.paths   = Append(@, path)]
         /\ idx' = IF path = "unknown wd"
                     THEN idx + IN_STRUCT_EVENT_SIZE
                     ELSE idx + IN_STRUCT_EVENT_SIZE + EventLen(buffer_, idx)
    /\ UNCHANGED pc
    /\ UNCHANGED parse_frame

\* one pass of the loop body that ends at one of its four idx += ... statements;
\* which one depends on the table, the offset does not
ParseRecord ==
    /\ pc = "parsing"
    /\ MoreRecords(buffer_, idx)
    /\ \E path \in LoopPaths :
         last' = [last EXCEPT !.offsets = Append(@, idx),
                              !.blocks  = Append(@, EventBlock(buffer_, idx)),
                              !.paths   = Append(@, path)]
    /\ idx' = idx + IN_STRUCT_EVENT_SIZE + EventLen(buffer_, idx)
    /\ UNCHANGED pc
    /\ UNCHANGED parse_frame

\* the loop test fails: Wait returns
ParseEnd ==
    /\ pc = "parsing"
    /\ ~MoreRecords(buffer_, idx)
    /\ pc' = "parsed"
    /\ UNCHANGED <<idx, last>>
    /\ UNCHANGED parse_frame

NextParse ==
    \/ ParseRecord
    \/ ParseEnd

SpecParse == InitParse /\ [][NextParse]_vars

\* the name of a block: the cells behind the header up to the first null cell
RECURSIVE CString(_)
CString(cells) ==
    IF cells = <<>> \/ Head(cells) = 0 THEN <<>> ELSE <<Head(cells)>> \o CString(Tail(cells))

\* the record a block stands for
DecodeRecord(block) ==
    [ wd |-> block[1], mask |-> block[2], cookie |-> block[3],
      name |-> CString(SubSeq(block, IN_STRUCT_EVENT_SIZE + 1, Len(block))) ]

\* the offset of the i-th record of rs in its buffer
RECURSIVE OffsetOf(_, _)
OffsetOf(rs, i) ==
    IF i = 1 THEN 0
    ELSE OffsetOf(rs, i - 1) + IN_STRUCT_EVENT_SIZE + PadLen(rs[i - 1].name)

\* C35: for a buffer that is a concatenation of n whole records, the Wait loop
\* visits each record exactly once, at offsets that advance by header size +
\* name length, and stops after the n-th record on every path through the loop
\* body; re-concatenating the visited header+name blocks gives the original
\* buffer.
C35_RecordParser ==
    pc \in {"parsing", "parsed"} =>
      LET rs == last.records
          k  == Len(last.offsets)
      IN
      /\ k <= Len(rs) /\ Len(last.blocks) = k
      /\ \A i \in 1 .. k :
           /\ last.offsets[i] = OffsetOf(rs, i)
           /\ DecodeRecord(last.blocks[i]) = rs[i]
           /\ Len(last.blocks[i]) = IN_STRUCT_EVENT_SIZE + last.blocks[i][4]
      /\ idx = OffsetOf(rs, k + 1)
      /\ Concat(last.blocks) = SubSeq(buffer_, 1, idx)
      /\ pc = "parsed" => (k = Len(rs) /\ idx = Len(buffer_) /\ Concat(last.blocks) = buffer_)

\* two records with names of different padded lengths have been parsed, the
\* first on the unknown-descriptor path and the second through to the end
C35_witness ==
    /\ pc = "parsed"
    /\ Len(last.records) = 2
    /\ last.records[1].name = <<97, 98>> /\ last.records[2].name = <<97>>
    /\ last.paths = <<"unknown wd", "completed">>
    /\ last.offsets = <<0, 8>> /\ idx = 14

-----------------------------------------------------------------------------
(* Creation of a file whose rule could not be registered *)

\* the uri behind its last '/'
BaseName(uri) ==
    LET at == { p \in DOMAIN uri : uri[p] = "/" } IN
    IF at = {} THEN uri
    ELSE SubSeq(uri, (CHOOSE p \in at : \A q \in at : q <= p) + 1, Len(uri))

\* the kernel has a record of this shape for the watch wd when the event happens
Delivers(k, wd, shape) ==
    /\ wd \in LiveWds(k)
    /\ Len(shape.name) > 0 => WatchedPath(k, wd) \in Directories
    /\ (shape.mask \ IN_ISDIR) \subseteq k.masks[WatchedPath(k, wd)]

\* rule e has been through the registration pass
Attempted(e) == all_[e].wd_ # -1 \/ InBad(e) \/ all_[e].error_ # "" \/ all_[e].warning_ # ""

-----------------------------------------------------------------------------
(* Spawn and the rules of good *)

\* the step is a call of Spawn, whatever fork returns
SpawnIssued == Processed /\ child' # NoSpawn

\* C37: Spawn is only ever issued for a rule that is in good at that moment
\* (its wd is not -1): after a rule has been demoted by an ignored record, later
\* records that carry its old descriptor, in the same buffer or a later one,
\* produce no spawn until the rule has been re-registered.
C37_SpawnOnlyForGood ==
    \* no demoted rule is a value of good while records are dispatched
    /\ [](pc \in {"waiting", "dispatching"} =>
            \A w \in DOMAIN good_ : all_[good_[w]].wd_ = w /\ w # -1)
    \* Spawn is called for the rule good has under the record's descriptor
    /\ [][ SpawnIssued =>
             LET rec == buffer_[idx]
                 e   == child'.entry
             IN
             /\ rec.wd \in DOMAIN good_ /\ good_[rec.wd] = e
             /\ rec.wd \in DOMAIN good_' /\ good_'[rec.wd] = e
             /\ all_[e].wd_ = rec.wd /\ all_'[e].wd_ = rec.wd
             /\ ~Has(rec.mask, IN_IGNORED) ]_vars
    \* a record whose descriptor belongs to no rule of good produces no spawn
    /\ [][ (Processed /\ buffer_[idx].wd \notin DOMAIN good_) =>
             (child' = NoSpawn /\ spawns' = spawns /\ last'.outcome = "unknown wd") ]_vars

\* the first record of a buffer has demoted its rule, and the second record has
\* spawned for another rule, which is in good
C37_witness ==
    /\ pc \in {"waiting", "dispatching"} /\ idx = 3
    /\ child # NoSpawn /\ InGood(child.entry) /\ all_[child.entry].wd_ # -1
    /\ Len(spawns) = 1 /\ spawns[1].rec = 2
    /\ \E e \in DOMAIN all_ :
         /\ e # child.entry /\ InBad(e) /\ ~InGood(e)
         /\ all_[e].wd_ = -1 /\ all_[e].warning_ # ""

-----------------------------------------------------------------------------
(* Unload after Unload *)

\* Unload runs in a state an earlier call of Unload has left
UnloadsAgain == pc \in {"returned", "exited"} /\ pc' \in {"exited", "deleted"} /\ pc' # pc

\* C38: calling Unload again after it has completed (as main does after Watch,
\* in its catch handlers and through the destructor) deletes no rule a second
\* time, removes no watch, closes no descriptor and no log file a second time,
\* and leaves the empty state unchanged.
C38_UnloadIdempotent ==
    [][ UnloadsAgain =>
          /\ last'.unload = NoUnload
          /\ all_ = <<>> /\ all_' = <<>>
          /\ good_ = EmptyMap /\ good_' = EmptyMap
          /\ bad_ = <<>> /\ bad_' = <<>>
          /\ uris_' = uris_ /\ uris_.files_ = {} /\ uris_.directories_ = {}
          /\ inotify_fd = -1 /\ inotify_fd' = -1
          /\ log_fp = "null" /\ log_fp' = "null"
          /\ kernel' = kernel ]_vars

\* Watch has unloaded a table with a live watch, main has called Unload after
\* it and the destructor once more
C38_witness ==
    /\ pc = "deleted"
    /\ last.exc = "none"
    /\ last.unload = NoUnload
    /\ all_ = <<>> /\ inotify_fd = -1 /\ log_fp = "null"
    /\ kernel.next > 1

-----------------------------------------------------------------------------
(* The parent name in Handler *)

\* the step calls the handler of a synthetic rule on a record that passes the
\* handler's test of the mask, so that the candidate path is computed
ReachesCandidate ==
    /\ pc = "dispatching" /\ (idx' # idx \/ pc' # pc)
    /\ buffer_[idx].wd \in DOMAIN good_
    /\ all_[good_[buffer_[idx].wd]].handler_
    /\ last'.event # <<>>
    /\ last'.outcome # "pattern skip"
    /\ ~Has(buffer_[idx].mask, IN_ISDIR) /\ Has(buffer_[idx].mask, IN_CREATE)

\* C39: whenever the handler reaches the computation of the candidate path, the
\* event was built with inside_a_watched_directory = true, so parent_object_name
\* is the synthetic rule's URI and is never the null pointer; a record on the
\* directory itself (name length 0) is rejected before the parent name is read.
C39_ParentNameNotNull ==
    /\ [][ ReachesCandidate =>
             LET rule == all_[good_[buffer_[idx].wd]] IN
             /\ last'.event.inside_a_watched_directory_
             /\ last'.event.parent_object_name_ # NullPtr
             /\ last'.event.parent_object_name_ = PtrTo(rule.uri_)
             /\ Len(buffer_[idx].name) > 0
             /\ last'.outcome # "killed" ]_vars
    /\ [][ ( /\ Processed
             /\ last'.handler # ""
             /\ Len(buffer_[idx].name) = 0 ) => last'.handler = "rejected" ]_vars
    /\ [](last.outcome # "killed")

\* the handler has computed the candidate path of a create record and found
\* its rule in bad
C39_witness ==
    /\ last.handler \in {"registered", "register failed"}
    /\ last.event.inside_a_watched_directory_
    /\ last.event.parent_object_name_ = PtrTo(all_[last.entry].uri_)
    /\ all_[last.entry].handler_

-----------------------------------------------------------------------------
(* The scan of Replace, one pass of its loop at a time *)

InitScan ==
    /\ pc = "scanning"
    /\ log_fp = "null"
    /\ inotify_fd = -1
    /\ hostname_ = <<>>
    /\ all_ = <<>>
    /\ good_ = EmptyMap
    /\ bad_ = <<>>
    /\ uris_ = [directories_ |-> {}, files_ |-> {}]
    /\ buffer_ = <<>>
    /\ idx = 0
    /\ actions = <<>>
    /\ kernel = KernelInit
    /\ spawns = <<>>
    /\ child = NoSpawn
    /\ \E c \in Values \X Froms \X Tos :
         last = [ fn |-> "Replace", value |-> c[1], from |-> c[2], to |-> c[3],
                  a_value |-> c[1], start_pos |-> 1, found |-> 0, passes |-> 0 ]

\* a pass that leaves start_pos at the occurrence it has replaced
ScanStepStaysAtMatch ==
    /\ pc = "scanning"
    /\ LET p == Find(last.a_value, last.from, last.start_pos) IN
       /\ p # 0
       /\ last' = [last EXCEPT
                     !.a_value   = SubSeq(last.a_value, 1, p - 1) \o last.to
                                     \o SubSeq(last.a_value, p + Len(last.from), Len(last.a_value)),
                     !.start_pos = p,
                     !.found     = p,
                     !.passes    = @ + 1]
    /\ UNCHANGED pc
    /\ UNCHANGED lib_vars

\* a pass of the loop: find has returned a position, the occurrence there is
\* replaced and start_pos is set behind the inserted text
ScanStep ==
    /\ pc = "scanning"
    /\ LET p == Find(last.a_value, last.from, last.start_pos) IN
       /\ p # 0
       /\ last' = [last EXCEPT
                     !.a_value   = SubSeq(last.a_value, 1, p - 1) \o last.to
                                     \o SubSeq(last.a_value, p + Len(last.from), Len(last.a_value)),
                     !.start_pos = p + Len(last.to),
                     !.found     = p,
                     !.passes    = @ + 1]
    /\ UNCHANGED pc
    /\ UNCHANGED lib_vars

\* find returns npos: Replace returns a_value
ScanEnd ==
    /\ pc = "scanning"
    /\ Find(last.a_value, last.from, last.start_pos) = 0
    /\ pc' = "scanned"
    /\ UNCHANGED last
    /\ UNCHANGED lib_vars

NextScan ==
    \/ ScanStep
    \/ ScanEnd

\* the loop is run by the thread that called Replace and by nothing else
SpecScan == InitScan /\ [][NextScan]_vars /\ WF_vars(NextScan)

\* what of a_value the scan has still before it
Unscanned(l) == Len(l.a_value) - l.start_pos + 1

\* C40: Replace(value, from, to) terminates for every value and every to
\* whenever from is non-empty, including when to contains from, and each step
\* of its scan moves the search position strictly forward.
C40_ScanStrictlyForward ==
    /\ <>(pc = "scanned")
    /\ [][ last'.passes # last.passes => last'.start_pos > last.start_pos ]_vars

\* C40, amended: Replace terminates for every value and every to whenever from
\* is non-empty, including when to contains from; a step of its scan never
\* moves the search position backward, moves it strictly forward when to is
\* non-empty or the occurrence lies beyond the position, and shortens what is
\* left to scan by the length of from at least.
C40_ScanTerminates ==
    /\ <>(pc = "scanned")
    /\ [][ last'.passes # last.passes =>
             /\ Len(last.from) > 0
             /\ last'.found >= last.start_pos
             /\ last'.start_pos = last'.found + Len(last.to)
             /\ last'.start_pos >= last.start_pos
             /\ (Len(last.to) > 0 \/ last'.found > last.start_pos) =>
                  last'.start_pos > last.start_pos
             /\ Unscanned(last') <= Unscanned(last) - Len(last.from)
             /\ Unscanned(last') >= 0 ]_vars
    /\ [](pc = "scanned" => last.a_value = Replace(last.value, last.from, last.to))

\* a scan has ended after two passes with a to that contains from
C40_witness ==
    /\ pc = "scanned"
    /\ last.passes = 2
    /\ Occurs(last.from, last.to)
    /\ Len(last.a_value) > Len(last.value)

====
